---------------------------- MODULE Spec2Model ----------------------------
(***************************************************************************)
(* RPiPlay touch bridge: the TouchHandler gesture state machine and its    *)
(* coordinate mapping (lib/touch_handler.cpp, touch_handler.h) and the     *)
(* ESP32Comm command formatting it feeds.                                  *)
(***************************************************************************)
EXTENDS Integers, Sequences, FiniteSets, TLC

(***************************************************************************)
(* Program constants.                                                      *)
(***************************************************************************)
SCROLL_THRESHOLD == 50

TAP_THRESHOLD == 20

MOVE_THRESHOLD == 5

DefaultScreenWidth == 800

DefaultScreenHeight == 480

DefaultTargetWidth == 390

DefaultTargetHeight == 844

\* The tap threshold the repository documents ("from 20 to 50 pixels").
DocumentedTapThreshold == 50

\* Range of the C++ type int (32 bits, two's complement).
INT_MAX == 2147483647

INT_MIN == -INT_MAX - 1

\* Values of touch_callback_: an empty std::function, or one of two sinks.
NoCallback == "none"

Sinks == {"A", "B"}

(***************************************************************************)
(* int arithmetic as the compiled code performs it.                        *)
(***************************************************************************)
Abs(n) == IF n < 0 THEN -n ELSE n

Max(a, b) == IF a > b THEN a ELSE b

Min(a, b) == IF a < b THEN a ELSE b

\* C++ integer division truncates toward zero; here for d > 0
\* (\div rounds down, so a negative n is rounded up instead).
TruncDiv(n, d) == IF n >= 0 THEN n \div d ELSE (n + d - 1) \div d

\* Whether a * b leaves the range of int (0 <= b).
MulOverflows(a, b) ==
    /\ b > 0
    /\ \/ a > INT_MAX \div b
       \/ a < (INT_MIN + b - 1) \div b

\* The low 32 bits of a * b read as a signed int, for 0 <= b < 32768,
\* computed on 16-bit limbs so that no intermediate leaves the int range.
MulWrap32(a, b) ==
    LET h     == a \div 65536
        l     == a % 65536
        lo    == (l * b) % 65536
        carry == (l * b) \div 65536
        hi    == (h * b + carry) % 65536
    IN  (IF hi >= 32768 THEN hi - 65536 ELSE hi) * 65536 + lo

\* std::max(0, std::min(v, dim - 1))
Clamp(v, dim) == Max(0, Min(v, dim - 1))

\* A slip in map_coordinates: the quotient taken the wrong way round,
\* (raw * screen) / target.
MapAxis_Swapped(raw, target, screen) ==
    IF target = 0
    THEN {[fault |-> TRUE, v |-> 0]}
    ELSE {[fault |-> FALSE, v |-> Clamp(TruncDiv(raw * screen, target), target)]}

\* One axis of map_coordinates: (raw * target) / screen, then the clamp.
\* The result is a set of outcomes [fault, v]:
\*  - screen = 0: integer division by zero is undefined; the build either
\*    traps (SIGFPE, fault = TRUE) or yields quotient 0 (ARM sdiv);
\*  - raw * target overflows int: undefined; the wrapped product, or any
\*    other value, of which both ends of the clamp's range stand for the rest.
MapAxis(raw, target, screen) ==
    LET quots == IF MulOverflows(raw, target)
                 THEN {MulWrap32(raw, target), INT_MIN + 1, INT_MAX}
                 ELSE {raw * target}
    IN  IF screen = 0
        THEN {[fault |-> TRUE, v |-> 0], [fault |-> FALSE, v |-> Clamp(0, target)]}
        ELSE {[fault |-> FALSE, v |-> Clamp(TruncDiv(q, screen), target)] : q \in quots}

\* map_coordinates(rpi_x, rpi_y) under mapping m = <<sw, sh, tw, th>>:
\* the outcomes [fault, x, y].
MapWith(m, rpi_x, rpi_y) ==
    {[fault |-> ox.fault \/ oy.fault, x |-> ox.v, y |-> oy.v] :
        ox \in MapAxis(rpi_x, m[3], m[1]), oy \in MapAxis(rpi_y, m[4], m[2])}

(***************************************************************************)
(* ESP32Comm command formatting (std::ostringstream << int).               *)
(***************************************************************************)
DigitChar(d) ==
    CASE d = 0 -> "0" [] d = 1 -> "1" [] d = 2 -> "2" [] d = 3 -> "3"
      [] d = 4 -> "4" [] d = 5 -> "5" [] d = 6 -> "6" [] d = 7 -> "7"
      [] d = 8 -> "8" [] d = 9 -> "9"

RECURSIVE NatToStr(_)
NatToStr(n) == IF n < 10 THEN DigitChar(n) ELSE NatToStr(n \div 10) \o DigitChar(n % 10)

IntToStr(n) == IF n < 0 THEN "-" \o NatToStr(-n) ELSE NatToStr(n)

\* A slip in send_click: the coordinates streamed in the other order.
send_click_YFirst(x, y) == "CLICK," \o IntToStr(y) \o "," \o IntToStr(x)

send_click(x, y) == "CLICK," \o IntToStr(x) \o "," \o IntToStr(y)

\* The other ESP32Comm senders: the command each streams into cmd.
send_goto(x, y) == "MOVE," \o IntToStr(x) \o "," \o IntToStr(y)

send_scroll(x, y, direction, amount) ==
    "SCROLL," \o IntToStr(direction) \o "," \o IntToStr(amount)

send_scroll_up(x, y, amount) == "SCROLL," \o IntToStr(1) \o "," \o IntToStr(amount)

send_scroll_down(x, y, amount) == "SCROLL," \o IntToStr(-1) \o "," \o IntToStr(amount)

send_home == "RESET"

send_status == "STATUS"

send_calibrate(x, y) == "RESET," \o IntToStr(x) \o "," \o IntToStr(y)

send_screen_resolution(width, height) ==
    "SCREEN," \o IntToStr(width) \o "," \o IntToStr(height)

\* int amount = 3 (send_scroll_up, send_scroll_down)
DefaultScrollAmount == 3

\* ESP32Comm(): iphone_width_(390), iphone_height_(844)
DefaultIphoneWidth == 390

DefaultIphoneHeight == 844

\* serial_fd_ of a link that is not open
NoFd == -1

\* TouchHandler(): input_fd_(-1)
NoInputFd == -1

\* the descriptor open() returns for the input device
InputFd == 4

\* the descriptor open() returns
SerialFd == 3

(***************************************************************************)
(* State.                                                                  *)
(***************************************************************************)
VARIABLES
    \* TouchHandler fields (touch_handler.h)
    screen_width_, screen_height_, target_width_, target_height_,
    touch_active_, last_x_, last_y_, current_x_, current_y_,
    scroll_start_y_, scroll_mode_, touch_callback_,
    \* the process has been killed by a trap (division by zero)
    crashed,
    \* the TouchEvents handed to the registered callback, in order, since the
    \* observer last emptied it: [type, x, y, to]
    sink,
    \* record of the calls made on the handler
    last_op,        \* the operation performed by the latest step
    seen_button,    \* a BTN_TOUCH/BTN_LEFT press or release was ever processed
    cfg_mid,        \* the latest set_coordinate_mapping call came during the
                    \* contact in progress (after its press)
    latched,        \* scroll mode was entered since the latest press
    cfg_args,       \* arguments of the latest set_coordinate_mapping call
    cfg_prev,       \* the mapping in force when that call began (while it
                    \* runs; the arguments again once it has returned)
    cfg_pc,         \* that call's position: 0 = returned, 1..4 = next write
    \* the scripted event source (SpecStream)
    drv,
    \* argument and result of a direct map_coordinates call (SpecMap)
    map_arg, map_res,
    \* the input_event handed to the latest process_event call (SpecRaw)
    raw_ev,
    \* ESP32Comm fields (esp32_comm.h)
    serial_fd_, connected_, iphone_width_, iphone_height_,
    \* the latest ESP32Comm call: [op, args], the commands it passed to
    \* send_command, the buffers it handed to write(), what write() returned
    \* for each, and the value it returned (<<>> for a void operation)
    comm_call, commands, handed, wrote, ret,
    \* the firmware dialect the deployment is configured for
    dialect,
    \* the argument of the latest set_touch_callback call (SpecSink)
    cb_arg,
    \* TouchHandler fields behind init, close, start and stop
    input_fd_, initialized_, running_,
    \* the event_loop threads alive, each at the head of its loop (about to
    \* test running_) or in its body (about to read)
    loops,
    \* the controlling thread: "idle", or "joining" inside stop()
    ctl,
    \* the latest step of the life cycle, and whether stop() has returned
    \* with no start() since
    life_op, stopped,
    \* the scripted tap (SpecTap): its phase, the position the contact
    \* reports, and the events of the press frame still to come
    tap,
    \* every byte write() has accepted on the serial descriptor, in order
    \* (SpecWire)
    wire,
    \* SimpleBLEMouse::moveToAbsolute of the MOVE-dialect firmware in
    \* progress: its locals, and the relative moves it has sent (SpecAbs)
    simple,
    \* the BLEMouseTo of esp/main.ino, the BLE connection and the reports
    \* sent over it (SpecFw)
    fw

mapping == <<screen_width_, screen_height_, target_width_, target_height_>>

gesture == <<touch_active_, last_x_, last_y_, current_x_, current_y_,
             scroll_start_y_, scroll_mode_>>

calls == <<last_op, seen_button, cfg_mid, latched>>

cfg == <<cfg_args, cfg_prev, cfg_pc>>

link == <<serial_fd_, connected_, iphone_width_, iphone_height_>>

comm == <<link, comm_call, commands, handed, wrote, ret, dialect>>

lifecycle == <<input_fd_, initialized_, running_, loops, ctl, life_op, stopped>>

\* what the later specifications record
extra == <<cb_arg, lifecycle, tap, wire, simple, fw>>

harness == <<drv, map_arg, map_res, raw_ev, comm, extra>>

vars == <<mapping, gesture, touch_callback_, crashed, sink, calls, cfg, harness>>

DefaultMapping ==
    <<DefaultScreenWidth, DefaultScreenHeight, DefaultTargetWidth, DefaultTargetHeight>>

\* TouchHandler::TouchHandler() and ESP32Comm::ESP32Comm()
\* esp/main.ino after setup(), the phone not yet paired: the fields of
\* BLEMouseTo, then where the firmware is (pc), the command in hand, the
\* milliseconds since moveTo read startTime, and a record of the calls of
\* move() since setTarget and of the reports sent over BLE.
FwSetup ==
    [currentX |-> 0, currentY |-> 0, targetX |-> 0, targetY |-> 0,
     screenWidth |-> 390, screenHeight |-> 844, isHomed |-> FALSE,
     connected |-> FALSE, pc |-> "loop", cmd |-> "none", args |-> <<>>,
     elapsed |-> 0,
     calls |-> 0, reached |-> FALSE, steady |-> FALSE, fromX |-> 0, fromY |-> 0,
     sentX |-> 0, sentY |-> 0, widest |-> 0, report |-> "none", clicks |-> 0]

Init ==
    /\ screen_width_ = DefaultScreenWidth
    /\ screen_height_ = DefaultScreenHeight
    /\ target_width_ = DefaultTargetWidth
    /\ target_height_ = DefaultTargetHeight
    /\ touch_active_ = FALSE
    /\ last_x_ = 0 /\ last_y_ = 0
    /\ current_x_ = 0 /\ current_y_ = 0
    /\ scroll_start_y_ = 0
    /\ scroll_mode_ = FALSE
    /\ touch_callback_ = NoCallback
    /\ crashed = FALSE
    /\ sink = <<>>
    /\ last_op = "construct"
    /\ seen_button = FALSE
    /\ cfg_mid = FALSE
    /\ latched = FALSE
    /\ cfg_args = DefaultMapping
    /\ cfg_prev = DefaultMapping
    /\ cfg_pc = 0
    /\ drv = [phase |-> "off", kind |-> "none", ax |-> 0, ay |-> 0,
              dir |-> 0, total |-> 0]
    /\ map_arg = <<0, 0>>
    /\ map_res = [fault |-> FALSE, x |-> 0, y |-> 0]
    /\ raw_ev = [type |-> "none", code |-> "none", value |-> 0]
    /\ serial_fd_ = NoFd
    /\ connected_ = FALSE
    /\ iphone_width_ = DefaultIphoneWidth
    /\ iphone_height_ = DefaultIphoneHeight
    /\ comm_call = [op |-> "construct", args |-> <<>>]
    /\ commands = <<>>
    /\ handed = <<>>
    /\ wrote = <<>>
    /\ ret = <<>>
    /\ dialect = "GOTO"
    /\ cb_arg = NoCallback
    /\ input_fd_ = NoInputFd
    /\ initialized_ = FALSE
    /\ running_ = FALSE
    /\ loops = <<>>
    /\ ctl = "idle"
    /\ life_op = "construct"
    /\ stopped = FALSE
    /\ tap = [phase |-> "off", px |-> 0, py |-> 0, pending |-> {}]
    /\ wire = ""
    /\ simple = [pc |-> "idle", targetX |-> 0, targetY |-> 0,
                 remainingX |-> 0, remainingY |-> 0,
                 homing |-> 0, sentX |-> 0, sentY |-> 0, widest |-> 0]
    /\ fw = FwSetup

(***************************************************************************)
(* TouchHandler operations.  Each takes log, the sink contents the         *)
(* delivered events are appended to.  Left out: last_touch_time_ and the   *)
(* static syn_report flag, which are written and never read, and the       *)
(* std::cout lines.  A process_event call is one step: the event_loop      *)
(* thread is its only caller.                                              *)
(***************************************************************************)
TouchEvent(t, x_pos, y_pos) ==
    [type |-> t, x |-> x_pos, y |-> y_pos, to |-> touch_callback_]

\* if (touch_callback_) touch_callback_(TouchEvent(t, x, y));
Deliver(log, t, x_pos, y_pos) ==
    IF touch_callback_ = NoCallback THEN log
    ELSE Append(log, TouchEvent(t, x_pos, y_pos))

\* map_coordinates(current_x_, current_y_, target_x, target_y)
MapCurrent == MapWith(mapping, current_x_, current_y_)

\* dx < 20 && dy < 20
IsTap(dx, dy) == dx < TAP_THRESHOLD /\ dy < TAP_THRESHOLD

\* A slip in the scroll test: the thresholds themselves count.
ScrollEntry_Inclusive(dx, dy) ==
    /\ ~scroll_mode_
    /\ Abs(dy) >= SCROLL_THRESHOLD
    /\ Abs(dx) <= SCROLL_THRESHOLD \div 2

\* !scroll_mode_ && abs(dy) > SCROLL_THRESHOLD && abs(dx) < SCROLL_THRESHOLD / 2
ScrollEntry(dx, dy) ==
    /\ ~scroll_mode_
    /\ Abs(dy) > SCROLL_THRESHOLD
    /\ Abs(dx) < SCROLL_THRESHOLD \div 2

\* A slip in the movement test: both axes must have moved.
IsMove_BothAxes(dx, dy) == Abs(dx) > MOVE_THRESHOLD /\ Abs(dy) > MOVE_THRESHOLD

\* abs(dx) > 5 || abs(dy) > 5
IsMove(dx, dy) == Abs(dx) > MOVE_THRESHOLD \/ Abs(dy) > MOVE_THRESHOLD

\* A slip at SYN_REPORT: movement processed whether or not a contact is down.
MovementTracked_Always == TRUE

\* if (touch_active_) at SYN_REPORT
MovementTracked == touch_active_

\* A slip in set_touch_callback: a sink already registered is kept.
SetTouchCallback_KeepsFirst(log, callback) ==
    /\ ~crashed
    /\ touch_callback_' = IF touch_callback_ = NoCallback THEN callback
                           ELSE touch_callback_
    /\ sink' = log
    /\ UNCHANGED <<mapping, gesture, crashed>>

\* set_touch_callback
SetTouchCallback(log, callback) ==
    /\ ~crashed
    /\ touch_callback_' = callback
    /\ sink' = log
    /\ UNCHANGED <<mapping, gesture, crashed>>

\* A slip in set_coordinate_mapping: target_height_ assigned from the
\* width argument.
SetCoordinateMapping_WidthTwice(log, rpi_width, rpi_height, target_width, target_height) ==
    /\ ~crashed
    /\ cfg_pc = 0
    /\ screen_width_' = rpi_width
    /\ screen_height_' = rpi_height
    /\ target_width_' = target_width
    /\ target_height_' = target_width
    /\ sink' = log
    /\ cfg_args' = <<rpi_width, rpi_height, target_width, target_height>>
    /\ cfg_prev' = cfg_args'
    /\ cfg_pc' = 0
    /\ UNCHANGED <<gesture, touch_callback_, crashed>>

\* set_coordinate_mapping, run to completion between two process_event calls
SetCoordinateMapping(log, rpi_width, rpi_height, target_width, target_height) ==
    /\ ~crashed
    /\ cfg_pc = 0
    /\ screen_width_' = rpi_width
    /\ screen_height_' = rpi_height
    /\ target_width_' = target_width
    /\ target_height_' = target_height
    /\ sink' = log
    /\ cfg_args' = <<rpi_width, rpi_height, target_width, target_height>>
    /\ cfg_prev' = cfg_args'
    /\ cfg_pc' = 0
    /\ UNCHANGED <<gesture, touch_callback_, crashed>>

\* set_coordinate_mapping entered on the configuring thread
CfgBegin(log, m) ==
    /\ ~crashed
    /\ cfg_pc = 0
    /\ cfg_args' = m
    /\ cfg_prev' = mapping
    /\ cfg_pc' = 1
    /\ sink' = log
    /\ UNCHANGED <<mapping, gesture, touch_callback_, crashed>>

\* one of its four assignments, in program order
CfgWrite(log) ==
    /\ ~crashed
    /\ cfg_pc \in 1..4
    /\ screen_width_' = IF cfg_pc = 1 THEN cfg_args[1] ELSE screen_width_
    /\ screen_height_' = IF cfg_pc = 2 THEN cfg_args[2] ELSE screen_height_
    /\ target_width_' = IF cfg_pc = 3 THEN cfg_args[3] ELSE target_width_
    /\ target_height_' = IF cfg_pc = 4 THEN cfg_args[4] ELSE target_height_
    /\ cfg_pc' = IF cfg_pc = 4 THEN 0 ELSE cfg_pc + 1
    /\ cfg_prev' = IF cfg_pc = 4 THEN cfg_args ELSE cfg_prev
    /\ sink' = log
    /\ UNCHANGED <<gesture, touch_callback_, crashed, cfg_args>>

\* process_event: EV_ABS, ABS_X
ProcessAbsX(log, value) ==
    /\ ~crashed
    /\ current_x_' = value
    /\ sink' = log
    /\ UNCHANGED <<mapping, touch_active_, last_x_, last_y_, current_y_,
                   scroll_start_y_, scroll_mode_, touch_callback_, crashed>>

\* process_event: EV_ABS, ABS_Y
ProcessAbsY(log, value) ==
    /\ ~crashed
    /\ current_y_' = value
    /\ sink' = log
    /\ UNCHANGED <<mapping, touch_active_, last_x_, last_y_, current_x_,
                   scroll_start_y_, scroll_mode_, touch_callback_, crashed>>

\* process_event: any event no branch handles (another type, another
\* EV_ABS or EV_KEY code, a key value other than 0 and 1, another EV_SYN code)
ProcessIgnored(log) ==
    /\ ~crashed
    /\ sink' = log
    /\ UNCHANGED <<mapping, gesture, touch_callback_, crashed>>

\* process_event: EV_KEY, BTN_TOUCH or BTN_LEFT, value 1
ProcessKeyDown(log) ==
    /\ ~crashed
    /\ touch_active_' = TRUE
    /\ last_x_' = current_x_
    /\ last_y_' = current_y_
    /\ scroll_mode_' = FALSE
    /\ scroll_start_y_' = current_y_
    /\ \E o \in MapCurrent :
          /\ crashed' = o.fault
          /\ sink' = IF o.fault THEN log ELSE Deliver(log, "TOUCH_DOWN", o.x, o.y)
    /\ UNCHANGED <<mapping, current_x_, current_y_, touch_callback_>>

\* A slip at release: the tap test made without looking at scroll_mode_.
ProcessKeyUp_ClicksAfterScroll(log) ==
    /\ ~crashed
    /\ touch_active_' = FALSE
    /\ \E o \in MapCurrent :
          /\ crashed' = o.fault
          /\ scroll_mode_' = IF o.fault THEN scroll_mode_ ELSE FALSE
          /\ sink' = IF /\ ~o.fault
                        /\ IsTap(Abs(current_x_ - last_x_), Abs(current_y_ - last_y_))
                     THEN Deliver(log, "TOUCH_UP", o.x, o.y)
                     ELSE log
    /\ UNCHANGED <<mapping, last_x_, last_y_, current_x_, current_y_,
                   scroll_start_y_, touch_callback_>>

\* A slip at release: scroll_mode_ left as it was.
ProcessKeyUp_KeepsScrollMode(log) ==
    /\ ~crashed
    /\ touch_active_' = FALSE
    /\ \E o \in MapCurrent :
          /\ crashed' = o.fault
          /\ sink' = IF /\ ~o.fault
                        /\ ~scroll_mode_
                        /\ IsTap(Abs(current_x_ - last_x_), Abs(current_y_ - last_y_))
                     THEN Deliver(log, "TOUCH_UP", o.x, o.y)
                     ELSE log
    /\ UNCHANGED <<mapping, last_x_, last_y_, current_x_, current_y_,
                   scroll_start_y_, scroll_mode_, touch_callback_>>

\* process_event: EV_KEY, BTN_TOUCH or BTN_LEFT, value 0.  A trap in
\* map_coordinates comes before the scroll_mode_ reset.
ProcessKeyUp(log) ==
    /\ ~crashed
    /\ touch_active_' = FALSE
    /\ \E o \in MapCurrent :
          /\ crashed' = o.fault
          /\ scroll_mode_' = IF o.fault THEN scroll_mode_ ELSE FALSE
          /\ sink' = IF /\ ~o.fault
                        /\ ~scroll_mode_
                        /\ IsTap(Abs(current_x_ - last_x_), Abs(current_y_ - last_y_))
                     THEN Deliver(log, "TOUCH_UP", o.x, o.y)
                     ELSE log
    /\ UNCHANGED <<mapping, last_x_, last_y_, current_x_, current_y_,
                   scroll_start_y_, touch_callback_>>

\* A slip in the scroll branch: scroll_start_y_ is not moved to the
\* current position after a scroll event.
ProcessSyn_KeepsAnchor(log) ==
    LET dx == current_x_ - last_x_
        dy == current_y_ - last_y_
        scrolling == scroll_mode_ \/ ScrollEntry(dx, dy)
        scroll_distance == current_y_ - scroll_start_y_
    IN
    /\ ~crashed
    /\ IF ~MovementTracked THEN
          /\ sink' = log
          /\ UNCHANGED <<gesture, crashed>>
       ELSE IF scrolling THEN
          /\ scroll_mode_' = TRUE
          /\ IF Abs(scroll_distance) > SCROLL_THRESHOLD THEN
                \E o \in MapCurrent :
                   /\ crashed' = o.fault
                   /\ sink' = IF o.fault THEN log
                              ELSE Deliver(log,
                                     IF scroll_distance > 0 THEN "SCROLL_DOWN"
                                                            ELSE "SCROLL_UP",
                                     o.x, o.y)
                   /\ scroll_start_y_' = scroll_start_y_
             ELSE /\ sink' = log
                  /\ UNCHANGED <<scroll_start_y_, crashed>>
          /\ UNCHANGED <<touch_active_, last_x_, last_y_, current_x_, current_y_>>
       ELSE IF IsMove(dx, dy) THEN
          \E o \in MapCurrent :
             /\ crashed' = o.fault
             /\ sink' = IF o.fault THEN log ELSE Deliver(log, "TOUCH_MOVE", o.x, o.y)
             /\ last_x_' = IF o.fault THEN last_x_ ELSE current_x_
             /\ last_y_' = IF o.fault THEN last_y_ ELSE current_y_
             /\ UNCHANGED <<touch_active_, current_x_, current_y_,
                            scroll_start_y_, scroll_mode_>>
       ELSE
          /\ sink' = log
          /\ UNCHANGED <<gesture, crashed>>
    /\ UNCHANGED <<mapping, touch_callback_>>

\* process_event: EV_SYN, SYN_REPORT
ProcessSyn(log) ==
    LET dx == current_x_ - last_x_
        dy == current_y_ - last_y_
        scrolling == scroll_mode_ \/ ScrollEntry(dx, dy)
        scroll_distance == current_y_ - scroll_start_y_
    IN
    /\ ~crashed
    /\ IF ~MovementTracked THEN
          /\ sink' = log
          /\ UNCHANGED <<gesture, crashed>>
       ELSE IF scrolling THEN
          /\ scroll_mode_' = TRUE
          /\ IF Abs(scroll_distance) > SCROLL_THRESHOLD THEN
                \E o \in MapCurrent :
                   /\ crashed' = o.fault
                   /\ sink' = IF o.fault THEN log
                              ELSE Deliver(log,
                                     IF scroll_distance > 0 THEN "SCROLL_DOWN"
                                                            ELSE "SCROLL_UP",
                                     o.x, o.y)
                   /\ scroll_start_y_' = IF o.fault THEN scroll_start_y_ ELSE current_y_
             ELSE /\ sink' = log
                  /\ UNCHANGED <<scroll_start_y_, crashed>>
          /\ UNCHANGED <<touch_active_, last_x_, last_y_, current_x_, current_y_>>
       ELSE IF IsMove(dx, dy) THEN
          \E o \in MapCurrent :
             /\ crashed' = o.fault
             /\ sink' = IF o.fault THEN log ELSE Deliver(log, "TOUCH_MOVE", o.x, o.y)
             /\ last_x_' = IF o.fault THEN last_x_ ELSE current_x_
             /\ last_y_' = IF o.fault THEN last_y_ ELSE current_y_
             /\ UNCHANGED <<touch_active_, current_x_, current_y_,
                            scroll_start_y_, scroll_mode_>>
       ELSE
          /\ sink' = log
          /\ UNCHANGED <<gesture, crashed>>
    /\ UNCHANGED <<mapping, touch_callback_>>

\* The button codes process_event takes for a contact.
TouchButtons == {"BTN_TOUCH", "BTN_LEFT"}

\* A slip in the EV_KEY branch: the button code is not looked at.
ProcessEvent_AnyKeyCode(log, event) ==
    IF event.type = "EV_ABS" /\ event.code = "ABS_X" THEN ProcessAbsX(log, event.value)
    ELSE IF event.type = "EV_ABS" /\ event.code = "ABS_Y" THEN ProcessAbsY(log, event.value)
    ELSE IF event.type = "EV_KEY" /\ event.value = 1
         THEN ProcessKeyDown(log)
    ELSE IF event.type = "EV_KEY" /\ event.value = 0
         THEN ProcessKeyUp(log)
    ELSE IF event.type = "EV_SYN" /\ event.code = "SYN_REPORT" THEN ProcessSyn(log)
    ELSE ProcessIgnored(log)

\* process_event(event): the switch on event.type and the tests of
\* event.code and event.value inside its cases.  Types and codes carry the
\* names linux/input.h gives them.
ProcessEvent(log, event) ==
    IF event.type = "EV_ABS" /\ event.code = "ABS_X" THEN ProcessAbsX(log, event.value)
    ELSE IF event.type = "EV_ABS" /\ event.code = "ABS_Y" THEN ProcessAbsY(log, event.value)
    ELSE IF event.type = "EV_KEY" /\ event.code \in TouchButtons /\ event.value = 1
         THEN ProcessKeyDown(log)
    ELSE IF event.type = "EV_KEY" /\ event.code \in TouchButtons /\ event.value = 0
         THEN ProcessKeyUp(log)
    ELSE IF event.type = "EV_SYN" /\ event.code = "SYN_REPORT" THEN ProcessSyn(log)
    ELSE ProcessIgnored(log)

(***************************************************************************)
(* The record of calls, kept beside each operation.                        *)
(***************************************************************************)
Observe(op) ==
    /\ last_op' = op
    /\ seen_button' = (seen_button \/ op \in {"down", "up"})
    /\ cfg_mid' = CASE op = "config" -> touch_active_
                   [] op = "down" -> FALSE
                   [] OTHER -> cfg_mid
    /\ latched' = CASE op = "down" -> FALSE
                   [] scroll_mode_' -> TRUE
                   [] OTHER -> latched

(***************************************************************************)
(* Spec: any caller.  Every operation may follow every other, with its     *)
(* inputs from the sets below; sink holds what the latest operation        *)
(* delivered.                                                              *)
(***************************************************************************)
\* Reported ABS_X values: below zero and inside the screen.
XVals == {-5, 100}

\* Reported ABS_Y values: inside and beyond the screen, more than
\* SCROLL_THRESHOLD apart.
YVals == {100, 160, 500}

\* The sinks a caller registers.
Registered == {"A"}

\* Arguments of set_coordinate_mapping: the defaults, another screen pair,
\* and mappings with a zero dimension.
Mappings ==
    { DefaultMapping,
      <<1024, 600, 430, 932>>,
      <<0, 480, 390, 844>>,
      <<800, 480, 0, 844>> }

Configure ==
    \E m \in Mappings :
        SetCoordinateMapping(<<>>, m[1], m[2], m[3], m[4])
        /\ Observe("config") /\ UNCHANGED harness

Register ==
    \E cb \in Registered :
        SetTouchCallback(<<>>, cb)
        /\ Observe("callback") /\ UNCHANGED <<cfg, harness>>

AbsX ==
    \E v \in XVals :
        ProcessAbsX(<<>>, v) /\ Observe("absx") /\ UNCHANGED <<cfg, harness>>

AbsY ==
    \E v \in YVals :
        ProcessAbsY(<<>>, v) /\ Observe("absy") /\ UNCHANGED <<cfg, harness>>

KeyDown == ProcessKeyDown(<<>>) /\ Observe("down") /\ UNCHANGED <<cfg, harness>>

KeyUp == ProcessKeyUp(<<>>) /\ Observe("up") /\ UNCHANGED <<cfg, harness>>

Syn == ProcessSyn(<<>>) /\ Observe("syn") /\ UNCHANGED <<cfg, harness>>

Ignored == ProcessIgnored(<<>>) /\ Observe("ignored") /\ UNCHANGED <<cfg, harness>>

Next ==
    \/ Configure
    \/ Register
    \/ AbsX
    \/ AbsY
    \/ KeyDown
    \/ KeyUp
    \/ Syn
    \/ Ignored

Spec == Init /\ [][Next]_vars

(***************************************************************************)
(* SpecStream: one contact from a scripted event source, on a handler      *)
(* with a sink registered and the constructor's mapping.  The source       *)
(* reports a position, presses, and then either                            *)
(*   tap:  [sync] reports a second position, releases, sync; or            *)
(*   drag: moves vertically in one direction, one frame (optional ABS_X,   *)
(*         ABS_Y, sync) per step, until DragLength is covered, then        *)
(*         releases, sync.                                                 *)
(* sink accumulates everything delivered.  drv.ax, drv.ay is the position  *)
(* reported when the press was processed.                                  *)
(***************************************************************************)
DragLength == 200

StartX == {100, 300}

StartY == {100, 300}

\* Offsets of the release position of a tap from its press position.
TapDX == {0, 2, 30, 60}

TapDY == {0, 1, 30}

\* Per-frame vertical steps of a drag, and its horizontal wobble.
DragSteps == {20, 60, 100}

DragDX == {0, 10}

Driver(phase, kind) == [drv EXCEPT !.phase = phase, !.kind = kind]

Keep == UNCHANGED <<cfg, map_arg, map_res, raw_ev, comm, extra>>

StreamRegister ==
    /\ drv.phase = "off"
    /\ SetTouchCallback(sink, "A") /\ Observe("callback") /\ Keep
    /\ drv' = Driver("ready", "none")

StreamStartX ==
    /\ drv.phase = "ready"
    /\ \E v \in StartX : ProcessAbsX(sink, v)
    /\ Observe("absx") /\ Keep
    /\ drv' = Driver("startx", "none")

StreamStartY ==
    /\ drv.phase = "startx"
    /\ \E v \in StartY : ProcessAbsY(sink, v)
    /\ Observe("absy") /\ Keep
    /\ drv' = Driver("starty", "none")

StreamDown ==
    /\ drv.phase = "starty"
    /\ ProcessKeyDown(sink) /\ Observe("down") /\ Keep
    /\ drv' = [Driver("down", "none") EXCEPT !.ax = current_x_, !.ay = current_y_]

StreamFirstSyn ==
    /\ drv.phase = "down"
    /\ ProcessSyn(sink) /\ Observe("syn") /\ Keep
    /\ drv' = Driver("held", "none")

StreamTapX ==
    /\ drv.phase = "held"
    /\ \E d \in TapDX : ProcessAbsX(sink, drv.ax + d)
    /\ Observe("absx") /\ Keep
    /\ drv' = Driver("tapx", "tap")

StreamTapY ==
    /\ drv.phase = "tapx"
    /\ \E d \in TapDY : ProcessAbsY(sink, drv.ay + d)
    /\ Observe("absy") /\ Keep
    /\ drv' = Driver("tapy", "tap")

StreamDragX ==
    /\ drv.phase \in {"held", "frame"}
    /\ drv.total < DragLength
    /\ \E d \in DragDX : ProcessAbsX(sink, drv.ax + d)
    /\ Observe("absx") /\ Keep
    /\ drv' = Driver("dragx", "drag")

StreamDragY ==
    /\ drv.phase \in {"held", "frame", "dragx"}
    /\ \E step \in DragSteps, dir \in {-1, 1} :
          /\ drv.dir \in {0, dir}
          /\ drv.total + step <= DragLength
          /\ ProcessAbsY(sink, current_y_ + dir * step)
          /\ drv' = [Driver("dragy", "drag") EXCEPT !.dir = dir,
                                                    !.total = drv.total + step]
    /\ Observe("absy") /\ Keep

StreamDragSyn ==
    /\ drv.phase = "dragy"
    /\ ProcessSyn(sink) /\ Observe("syn") /\ Keep
    /\ drv' = Driver("frame", "drag")

StreamUp ==
    /\ \/ drv.phase = "tapy"
       \/ drv.phase = "frame" /\ drv.total = DragLength
    /\ ProcessKeyUp(sink) /\ Observe("up") /\ Keep
    /\ drv' = Driver("up", drv.kind)

StreamLastSyn ==
    /\ drv.phase = "up"
    /\ ProcessSyn(sink) /\ Observe("syn") /\ Keep
    /\ drv' = Driver("done", drv.kind)

StreamNext ==
    \/ StreamRegister
    \/ StreamStartX
    \/ StreamStartY
    \/ StreamDown
    \/ StreamFirstSyn
    \/ StreamTapX
    \/ StreamTapY
    \/ StreamDragX
    \/ StreamDragY
    \/ StreamDragSyn
    \/ StreamUp
    \/ StreamLastSyn

SpecStream == Init /\ [][StreamNext]_vars

(***************************************************************************)
(* SpecConc: set_coordinate_mapping on the configuring thread while the    *)
(* event_loop thread runs process_event.  The two share the four mapping   *)
(* fields, plain ints with no lock: the event thread may run between any   *)
(* two of the call's assignments.  Only well-formed mappings are set.      *)
(***************************************************************************)
ConcMappings == { DefaultMapping, <<1024, 600, 430, 932>> }

ConcBegin ==
    \E m \in ConcMappings :
        CfgBegin(<<>>, m) /\ Observe("config") /\ UNCHANGED harness

ConcWrite == CfgWrite(<<>>) /\ Observe("config") /\ UNCHANGED harness

ConcNext ==
    \/ ConcBegin
    \/ ConcWrite
    \/ Register
    \/ AbsX
    \/ AbsY
    \/ KeyDown
    \/ KeyUp
    \/ Syn

SpecConc == Init /\ [][ConcNext]_vars

(***************************************************************************)
(* SpecMap: map_coordinates called directly on points of the raw range of  *)
(* an input_event value (a 32-bit int), under mappings with positive       *)
(* dimensions.                                                             *)
(***************************************************************************)
RawX == {-5, 0, 100, 799, 800, 6000000}

RawY == {-5, 0, 101, 479, 480, 6000000}

PositiveMappings ==
    { DefaultMapping, <<1024, 600, 430, 932>>, <<480, 800, 844, 390>> }

MapConfigure ==
    \E m \in PositiveMappings :
        SetCoordinateMapping(<<>>, m[1], m[2], m[3], m[4])
        /\ Observe("config") /\ UNCHANGED harness

MapCall ==
    \E rpi_x \in RawX, rpi_y \in RawY :
        /\ ~crashed
        /\ map_arg' = <<rpi_x, rpi_y>>
        /\ map_res' \in MapWith(mapping, rpi_x, rpi_y)
        /\ UNCHANGED <<mapping, gesture, touch_callback_, crashed, sink, cfg, drv, raw_ev, comm, extra>>
        /\ Observe("map")

MapNext ==
    \/ MapConfigure
    \/ MapCall

SpecMap == Init /\ [][MapNext]_vars

(***************************************************************************)
(* SpecRaw: the event_loop thread hands process_event whatever the device  *)
(* reports: the events the handler acts on and others beside them, in any  *)
(* order.  raw_ev is the event of the latest call.                         *)
(***************************************************************************)
RawEvents ==
    {[type |-> "EV_ABS", code |-> "ABS_X", value |-> v] : v \in XVals}
    \cup {[type |-> "EV_ABS", code |-> "ABS_Y", value |-> v] : v \in YVals}
    \cup {[type |-> "EV_ABS", code |-> c, value |-> 160] :
             c \in {"ABS_PRESSURE", "ABS_MT_PRESSURE", "ABS_MT_POSITION_Y"}}
    \cup {[type |-> "EV_KEY", code |-> c, value |-> v] :
             c \in {"BTN_TOUCH", "BTN_LEFT", "BTN_RIGHT"}, v \in {0, 1, 2}}
    \cup {[type |-> "EV_SYN", code |-> c, value |-> 0] :
             c \in {"SYN_REPORT", "SYN_MT_REPORT", "SYN_DROPPED"}}
    \cup {[type |-> "EV_REL", code |-> "REL_Y", value |-> 160],
          [type |-> "EV_MSC", code |-> "MSC_SCAN", value |-> 1]}

\* What the record of calls notes for an event: a press or release of the
\* touch button, or any other event.
Label(event) ==
    IF event.type = "EV_KEY" /\ event.code \in {"BTN_TOUCH", "BTN_LEFT"}
                            /\ event.value \in {0, 1}
    THEN (IF event.value = 1 THEN "down" ELSE "up")
    ELSE "event"

RawRegister == Register

RawEvent ==
    \E event \in RawEvents :
        /\ ProcessEvent(<<>>, event)
        /\ raw_ev' = event
        /\ Observe(Label(event))
        /\ UNCHANGED <<cfg, drv, map_arg, map_res, comm, extra>>

RawNext ==
    \/ RawRegister
    \/ RawEvent

SpecRaw == Init /\ [][RawNext]_vars

(***************************************************************************)
(* ESP32Comm operations.  write() on the serial descriptor returns -1      *)
(* (an error, EAGAIN on the non-blocking descriptor among them) or the     *)
(* number of bytes it accepted, which may be fewer than it was handed.     *)
(* Left out: the termios settings and the std::cout / std::cerr lines.     *)
(***************************************************************************)
\* The values write(serial_fd_, data, length) may return.
WriteResults(data) == {-1, 1, Len(data)}

\* A slip in write_to_serial: the value write() returned is not looked at.
write_to_serial_Unchecked(data, bytes_written) == TRUE

\* write_to_serial(data), given what its one write() call returned
write_to_serial(data, bytes_written) ==
    IF bytes_written < 0 THEN FALSE
    ELSE IF bytes_written # Len(data) THEN FALSE
    ELSE TRUE

\* A slip in send_command: the command handed on without its newline.
send_command_NoNewline(command, bytes_written) ==
    IF ~connected_ \/ serial_fd_ = NoFd
    THEN [ret |-> FALSE, handed |-> <<>>, wrote |-> <<>>]
    ELSE [ret |-> write_to_serial(command, bytes_written),
          handed |-> <<command>>,
          wrote |-> <<bytes_written>>]

\* send_command(command): its return value, the buffer it hands to write()
\* and what write() returned for it
send_command(command, bytes_written) ==
    IF ~connected_ \/ serial_fd_ = NoFd
    THEN [ret |-> FALSE, handed |-> <<>>, wrote |-> <<>>]
    ELSE [ret |-> write_to_serial(command \o "\n", bytes_written),
          handed |-> <<command \o "\n">>,
          wrote |-> <<bytes_written>>]

\* A bool-returning sender: return send_command(cmd.str())
Send(op, args, command) ==
    \E bytes_written \in WriteResults(command \o "\n") :
        LET r == send_command(command, bytes_written) IN
        /\ comm_call' = [op |-> op, args |-> args]
        /\ commands' = <<command>>
        /\ handed' = r.handed
        /\ wrote' = r.wrote
        /\ ret' = <<r.ret>>
        /\ UNCHANGED <<link, dialect>>

\* A slip in set_iphone_resolution: the announcement carries the
\* dimensions in the other order.
set_iphone_resolution_Transposed(width, height) ==
    \E bytes_written \in WriteResults(send_screen_resolution(height, width) \o "\n") :
        LET r == send_command(send_screen_resolution(height, width), bytes_written) IN
        /\ iphone_width_' = width
        /\ iphone_height_' = height
        /\ comm_call' = [op |-> "set_iphone_resolution", args |-> <<width, height>>]
        /\ commands' = <<send_screen_resolution(height, width)>>
        /\ handed' = r.handed
        /\ wrote' = r.wrote
        /\ ret' = <<>>
        /\ UNCHANGED <<serial_fd_, connected_, dialect>>

\* set_iphone_resolution(width, height): void
set_iphone_resolution(width, height) ==
    \E bytes_written \in WriteResults(send_screen_resolution(width, height) \o "\n") :
        LET r == send_command(send_screen_resolution(width, height), bytes_written) IN
        /\ iphone_width_' = width
        /\ iphone_height_' = height
        /\ comm_call' = [op |-> "set_iphone_resolution", args |-> <<width, height>>]
        /\ commands' = <<send_screen_resolution(width, height)>>
        /\ handed' = r.handed
        /\ wrote' = r.wrote
        /\ ret' = <<>>
        /\ UNCHANGED <<serial_fd_, connected_, dialect>>

\* init(device_path, baud_rate) when open() or configure_serial_port fails
init_fails ==
    /\ serial_fd_' = NoFd
    /\ comm_call' = [op |-> "init", args |-> <<>>]
    /\ commands' = <<>>
    /\ handed' = <<>>
    /\ wrote' = <<>>
    /\ ret' = <<FALSE>>
    /\ UNCHANGED <<connected_, iphone_width_, iphone_height_, dialect>>

\* init(device_path, baud_rate) when both succeed: send_status(), return true
init_ok ==
    \E bytes_written \in WriteResults(send_status \o "\n") :
        /\ serial_fd_' = SerialFd
        /\ connected_' = TRUE
        /\ comm_call' = [op |-> "init", args |-> <<>>]
        /\ commands' = <<send_status>>
        /\ handed' = <<send_status \o "\n">>
        /\ wrote' = <<bytes_written>>
        /\ ret' = <<TRUE>>
        /\ UNCHANGED <<iphone_width_, iphone_height_, dialect>>

\* close()
close ==
    /\ serial_fd_' = NoFd
    /\ connected_' = FALSE
    /\ comm_call' = [op |-> "close", args |-> <<>>]
    /\ commands' = <<>>
    /\ handed' = <<>>
    /\ wrote' = <<>>
    /\ ret' = <<>>
    /\ UNCHANGED <<iphone_width_, iphone_height_, dialect>>

(***************************************************************************)
(* SpecComm: any caller of one ESP32Comm, from its construction.  The      *)
(* deployment's firmware dialect is the caller's to choose; ESP32Comm has  *)
(* no operation that takes it.                                             *)
(***************************************************************************)
\* Target coordinates passed to the senders.
CommX == {-7, 0, 195}

CommY == {0, 422}

\* Scroll amounts and directions passed to send_scroll.
Amounts == {DefaultScrollAmount, 5}

Directions == {-1, 1}

\* Resolutions passed to set_iphone_resolution and send_screen_resolution.
Widths == {0, 390, 430}

Heights == {-844, 844}

Dialects == {"GOTO", "MOVE"}

TouchHandlerIdle == UNCHANGED <<mapping, gesture, touch_callback_, crashed, sink, calls,
                                cfg, drv, map_arg, map_res, raw_ev, extra>>

CommInitFails == init_fails /\ TouchHandlerIdle

CommInit == init_ok /\ TouchHandlerIdle

CommClose == close /\ TouchHandlerIdle

CommGoto ==
    \E x \in CommX, y \in CommY :
        Send("send_goto", <<x, y>>, send_goto(x, y)) /\ TouchHandlerIdle

CommClick ==
    \E x \in CommX, y \in CommY :
        Send("send_click", <<x, y>>, send_click(x, y)) /\ TouchHandlerIdle

CommScroll ==
    \E x \in CommX, y \in CommY, direction \in Directions, amount \in Amounts :
        Send("send_scroll", <<x, y, direction, amount>>,
             send_scroll(x, y, direction, amount)) /\ TouchHandlerIdle

CommScrollUp ==
    \E x \in CommX, y \in CommY, amount \in Amounts :
        Send("send_scroll_up", <<x, y, amount>>, send_scroll_up(x, y, amount))
        /\ TouchHandlerIdle

CommScrollDown ==
    \E x \in CommX, y \in CommY, amount \in Amounts :
        Send("send_scroll_down", <<x, y, amount>>, send_scroll_down(x, y, amount))
        /\ TouchHandlerIdle

CommHome == Send("send_home", <<>>, send_home) /\ TouchHandlerIdle

CommStatus == Send("send_status", <<>>, send_status) /\ TouchHandlerIdle

CommCalibrate ==
    \E x \in CommX, y \in CommY :
        Send("send_calibrate", <<x, y>>, send_calibrate(x, y)) /\ TouchHandlerIdle

CommScreen ==
    \E width \in Widths, height \in Heights :
        Send("send_screen_resolution", <<width, height>>,
             send_screen_resolution(width, height)) /\ TouchHandlerIdle

CommSetResolution ==
    \E width \in Widths, height \in Heights :
        set_iphone_resolution(width, height) /\ TouchHandlerIdle

\* The caller settles on a firmware dialect.
CommSelect ==
    /\ \E d \in Dialects : dialect' = d
    /\ UNCHANGED <<link, comm_call, commands, handed, wrote, ret>>
    /\ TouchHandlerIdle

CommNext ==
    \/ CommInitFails
    \/ CommInit
    \/ CommClose
    \/ CommGoto
    \/ CommClick
    \/ CommScroll
    \/ CommScrollUp
    \/ CommScrollDown
    \/ CommHome
    \/ CommStatus
    \/ CommCalibrate
    \/ CommScreen
    \/ CommSetResolution
    \/ CommSelect

SpecComm == Init /\ [][CommNext]_vars

(***************************************************************************)
(* SpecSink: a caller that registers one sink after another while a        *)
(* device reports contacts.  sink accumulates every delivery, each with    *)
(* the sink it went to, up to MaxDelivered of them.                        *)
(***************************************************************************)
MaxDelivered == 3

\* Reported ABS_Y values: a tap distance and a scroll distance apart.
SinkYVals == {100, 110, 170}

Room == Len(sink) < MaxDelivered

SinkUntouched == UNCHANGED <<cfg, drv, map_arg, map_res, raw_ev, comm>>

SinkRegister ==
    \E cb \in Sinks :
        /\ SetTouchCallback(sink, cb)
        /\ cb_arg' = cb
        /\ Observe("callback") /\ SinkUntouched /\ UNCHANGED <<lifecycle, tap, wire, simple, fw>>

SinkAbsY ==
    \E v \in SinkYVals :
        ProcessAbsY(sink, v) /\ Observe("absy") /\ SinkUntouched /\ UNCHANGED extra

SinkKeyDown ==
    Room /\ ProcessKeyDown(sink) /\ Observe("down") /\ SinkUntouched /\ UNCHANGED extra

SinkKeyUp ==
    Room /\ ProcessKeyUp(sink) /\ Observe("up") /\ SinkUntouched /\ UNCHANGED extra

SinkSyn ==
    Room /\ ProcessSyn(sink) /\ Observe("syn") /\ SinkUntouched /\ UNCHANGED extra

SinkNext ==
    \/ SinkRegister
    \/ SinkAbsY
    \/ SinkKeyDown
    \/ SinkKeyUp
    \/ SinkSyn

SpecSink == Init /\ [][SinkNext]_vars

(***************************************************************************)
(* The life cycle of a TouchHandler: init, close, start and stop on the    *)
(* controlling thread, and the event_loop threads start creates.           *)
(* initialized_ and running_ are std::atomic<bool>; input_fd_ is a plain   *)
(* int.  std::terminate (a std::thread assigned over a joinable one) ends  *)
(* the process: crashed.                                                   *)
(***************************************************************************)
Without(seq, i) == SubSeq(seq, 1, i - 1) \o SubSeq(seq, i + 1, Len(seq))

\* init(device_path) when open() or a capability test fails
touch_init_fails ==
    /\ ~crashed /\ ctl = "idle"
    /\ input_fd_' = NoInputFd
    /\ life_op' = "init"
    /\ UNCHANGED <<initialized_, running_, loops, ctl, stopped>>

\* init(device_path) when they succeed
touch_init_ok ==
    /\ ~crashed /\ ctl = "idle"
    /\ input_fd_' = InputFd
    /\ initialized_' = TRUE
    /\ life_op' = "init"
    /\ UNCHANGED <<running_, loops, ctl, stopped>>

\* close()
touch_close ==
    /\ ~crashed /\ ctl = "idle"
    /\ input_fd_' = NoInputFd
    /\ initialized_' = FALSE
    /\ life_op' = "close"
    /\ UNCHANGED <<running_, loops, ctl, stopped>>

\* A slip in start: running_ is not tested.
start_Unchecked ==
    /\ ~crashed /\ ctl = "idle"
    /\ life_op' = "start"
    /\ IF ~initialized_
       THEN UNCHANGED <<running_, loops, stopped, crashed>>
       ELSE /\ running_' = TRUE
            /\ loops' = Append(loops, "head")
            /\ crashed' = (loops # <<>>)
            /\ stopped' = FALSE
    /\ UNCHANGED <<input_fd_, initialized_, ctl>>

\* start(): the new thread exists before it is assigned to event_thread_
start ==
    /\ ~crashed /\ ctl = "idle"
    /\ life_op' = "start"
    /\ IF ~initialized_ \/ running_
       THEN UNCHANGED <<running_, loops, stopped, crashed>>
       ELSE /\ running_' = TRUE
            /\ loops' = Append(loops, "head")
            /\ crashed' = (loops # <<>>)
            /\ stopped' = FALSE
    /\ UNCHANGED <<input_fd_, initialized_, ctl>>

\* stop() up to its join: returns at once when not running
stop_begin ==
    /\ ~crashed /\ ctl = "idle"
    /\ life_op' = "stop"
    /\ IF ~running_
       THEN /\ stopped' = TRUE
            /\ UNCHANGED <<running_, ctl>>
       ELSE /\ running_' = FALSE
            /\ ctl' = "joining"
            /\ UNCHANGED stopped
    /\ UNCHANGED <<input_fd_, initialized_, loops, crashed>>

\* A slip in stop: it returns without joining the thread.
stop_join_NoWait ==
    /\ ~crashed /\ ctl = "joining"
    /\ ctl' = "idle"
    /\ stopped' = TRUE
    /\ life_op' = "stop"
    /\ UNCHANGED <<input_fd_, initialized_, running_, loops, crashed>>

\* stop(): event_thread_.join() returns once the thread has ended
stop_join ==
    /\ ~crashed /\ ctl = "joining"
    /\ loops = <<>>
    /\ ctl' = "idle"
    /\ stopped' = TRUE
    /\ life_op' = "stop"
    /\ UNCHANGED <<input_fd_, initialized_, running_, loops, crashed>>

\* event_loop: while (running_)
loop_test(i) ==
    /\ ~crashed
    /\ loops[i] = "head"
    /\ loops' = IF running_ THEN [loops EXCEPT ![i] = "body"] ELSE Without(loops, i)
    /\ life_op' = "test"
    /\ UNCHANGED <<input_fd_, initialized_, running_, ctl, stopped, crashed>>

\* event_loop: read() returns a whole input_event, process_event(event)
loop_event(i, event) ==
    /\ loops[i] = "body"
    /\ input_fd_ # NoInputFd
    /\ ProcessEvent(<<>>, event)
    /\ loops' = [loops EXCEPT ![i] = "head"]
    /\ life_op' = "event"
    /\ UNCHANGED <<input_fd_, initialized_, running_, ctl, stopped>>

\* event_loop: read() returns -1 (nothing to read, or no open descriptor)
\* and the thread sleeps 10 ms, or returns a short count
loop_idle(i) ==
    /\ ~crashed
    /\ loops[i] = "body"
    /\ loops' = [loops EXCEPT ![i] = "head"]
    /\ life_op' = "idle"
    /\ UNCHANGED <<input_fd_, initialized_, running_, ctl, stopped, crashed>>

(***************************************************************************)
(* SpecLife: one controlling thread calling init, close, start, stop and   *)
(* set_touch_callback in any order, each call after the one before has     *)
(* returned, beside the event_loop thread.  SpecLifeFair adds that a       *)
(* thread that can run does run: the event_loop thread, and stop() waking  *)
(* from its join.                                                          *)
(***************************************************************************)
LifeEvents ==
    {[type |-> "EV_ABS", code |-> "ABS_Y", value |-> 170],
     [type |-> "EV_KEY", code |-> "BTN_TOUCH", value |-> 1],
     [type |-> "EV_KEY", code |-> "BTN_TOUCH", value |-> 0],
     [type |-> "EV_SYN", code |-> "SYN_REPORT", value |-> 0]}

HandlerIdle == UNCHANGED <<mapping, gesture, touch_callback_, sink, calls>>

LifeUntouched == UNCHANGED <<cfg, drv, map_arg, map_res, raw_ev, comm, cb_arg, tap, wire,
                             simple, fw>>

LifeInitFails == touch_init_fails /\ HandlerIdle /\ UNCHANGED crashed /\ LifeUntouched

LifeInit == touch_init_ok /\ HandlerIdle /\ UNCHANGED crashed /\ LifeUntouched

LifeClose == touch_close /\ HandlerIdle /\ UNCHANGED crashed /\ LifeUntouched

LifeStart == start /\ HandlerIdle /\ LifeUntouched

LifeStop == stop_begin /\ HandlerIdle /\ LifeUntouched

LifeJoin == stop_join /\ HandlerIdle /\ LifeUntouched

LifeRegister ==
    /\ ctl = "idle"
    /\ SetTouchCallback(<<>>, "A") /\ Observe("callback")
    /\ UNCHANGED <<cfg, harness>>

LoopTest ==
    \E i \in 1..Len(loops) : loop_test(i) /\ HandlerIdle /\ LifeUntouched

LoopEvent ==
    \E i \in 1..Len(loops), event \in LifeEvents :
        /\ loop_event(i, event)
        /\ Observe(Label(event))
        /\ LifeUntouched

LoopIdle ==
    \E i \in 1..Len(loops) : loop_idle(i) /\ HandlerIdle /\ LifeUntouched

LifeNext ==
    \/ LifeInitFails
    \/ LifeInit
    \/ LifeClose
    \/ LifeStart
    \/ LifeStop
    \/ LifeJoin
    \/ LifeRegister
    \/ LoopTest
    \/ LoopEvent
    \/ LoopIdle

SpecLife == Init /\ [][LifeNext]_vars

SpecLifeFair ==
    /\ Init /\ [][LifeNext]_vars
    /\ WF_vars(LoopTest)
    /\ WF_vars(LoopEvent \/ LoopIdle)
    /\ WF_vars(LifeJoin)

(***************************************************************************)
(* The firmware of esp/main.ino at the other end of the serial link:       *)
(* loop() reads a line and handleCommand answers it.  Arduino Strings      *)
(* index from 0; indexOf returns -1 when the character is not found.       *)
(***************************************************************************)
Whitespace == {" ", "\n", "\r", "\t"}

\* String::trim
RECURSIVE Trim(_)
Trim(text) ==
    IF Len(text) = 0 THEN text
    ELSE IF Head(text) \in Whitespace THEN Trim(Tail(text))
    ELSE IF SubSeq(text, Len(text), Len(text)) \in Whitespace
         THEN Trim(SubSeq(text, 1, Len(text) - 1))
    ELSE text

\* String::startsWith
StartsWith(text, prefix) ==
    Len(text) >= Len(prefix) /\ SubSeq(text, 1, Len(prefix)) = prefix

\* String::indexOf(ch, fromIndex)
RECURSIVE IndexOf(_, _, _)
IndexOf(text, ch, fromIndex) ==
    IF fromIndex >= Len(text) THEN -1
    ELSE IF SubSeq(text, fromIndex + 1, fromIndex + 1) = ch THEN fromIndex
    ELSE IndexOf(text, ch, fromIndex + 1)

\* loop(): Serial.readStringUntil('\n'), command.trim(), for the bytes of
\* one write that arrived whole
ReadCommand(bytes) ==
    LET newline == IndexOf(bytes, "\n", 0)
    IN  Trim(IF newline < 0 THEN bytes ELSE SubSeq(bytes, 1, newline))

\* handleCommand(command): the kind of answer printed on the serial line
handleCommand(command, ble_connected) ==
    LET comma1 == IndexOf(command, ",", 0)
        comma2 == IndexOf(command, ",", comma1 + 1)
        comma3 == IndexOf(command, ",", comma2 + 1)
    IN
    IF ~ble_connected /\ ~StartsWith(command, "STATUS") THEN "not connected"
    ELSE IF StartsWith(command, "GOTO,") \/ StartsWith(command, "CLICK,") THEN
        (IF comma1 > 0 /\ comma2 > 0 THEN "completed" ELSE "Invalid format")
    ELSE IF StartsWith(command, "SCROLL,") THEN
        (IF comma1 > 0 /\ comma2 > 0 /\ comma3 > 0 THEN "completed"
         ELSE "Invalid format")
    ELSE IF StartsWith(command, "SCROLL_UP,") \/ StartsWith(command, "SCROLL_DOWN,") THEN
        (IF comma1 > 0 /\ comma2 > 0 THEN "completed" ELSE "Invalid format")
    ELSE IF StartsWith(command, "HSCROLL,") THEN
        (IF comma1 > 0 /\ comma2 > 0 /\ comma3 > 0 THEN "completed"
         ELSE "Invalid format")
    ELSE IF command = "HOME" THEN "completed"
    ELSE IF StartsWith(command, "CALIBRATE,") \/ StartsWith(command, "SCREEN,") THEN
        (IF comma1 > 0 /\ comma2 > 0 THEN "completed" ELSE "no answer")
    ELSE IF StartsWith(command, "FACTOR,") THEN
        (IF comma1 > 0 THEN "completed" ELSE "no answer")
    ELSE IF command = "STATUS" THEN "status"
    ELSE "Unknown command"

(***************************************************************************)
(* SpecEdge: any order of events on a handler with the constructor's       *)
(* mapping, the reported positions lying at the thresholds of the gesture  *)
(* tests and next to them.  sink holds what the latest call delivered.     *)
(***************************************************************************)
\* ABS_X values 5, 6, 24 and 25 apart.
EdgeX == {100, 105, 106, 124, 125}

\* ABS_Y values 5, 6, 50 and 51 apart, and 51 further on.
EdgeY == {100, 105, 106, 150, 151, 202}

EdgeRegister == Register

EdgeAbsX ==
    \E v \in EdgeX :
        ProcessAbsX(<<>>, v) /\ Observe("absx") /\ UNCHANGED <<cfg, harness>>

EdgeAbsY ==
    \E v \in EdgeY :
        ProcessAbsY(<<>>, v) /\ Observe("absy") /\ UNCHANGED <<cfg, harness>>

EdgeKeyDown == KeyDown

EdgeKeyUp == KeyUp

EdgeSyn == Syn

EdgeNext ==
    \/ EdgeRegister
    \/ EdgeAbsX
    \/ EdgeAbsY
    \/ EdgeKeyDown
    \/ EdgeKeyUp
    \/ EdgeSyn

SpecEdge == Init /\ [][EdgeNext]_vars

(***************************************************************************)
(* SpecTap: a stationary tap from a scripted device.  The device first     *)
(* reports the position an earlier contact ended at.  The press frame      *)
(* then holds the button press and the axes whose value differs from the   *)
(* one last reported (evdev passes on changed values only), in any order,  *)
(* closed by SYN_REPORT; the release frame holds the button release and    *)
(* SYN_REPORT.  sink accumulates everything delivered.                     *)
(***************************************************************************)
\* Where the earlier contact ended.
EarlierX == {100, 300}

EarlierY == {100, 300}

\* Where the tap lands.
TapX == {100, 110, 300}

TapY == {100, 300}

TapKeep == UNCHANGED <<cfg, drv, map_arg, map_res, raw_ev, comm, cb_arg, lifecycle, wire,
                       simple, fw>>

TapRegister ==
    /\ tap.phase = "off"
    /\ SetTouchCallback(sink, "A") /\ Observe("callback") /\ TapKeep
    /\ tap' = [tap EXCEPT !.phase = "earlier x"]

TapEarlierX ==
    /\ tap.phase = "earlier x"
    /\ \E v \in EarlierX : ProcessAbsX(sink, v)
    /\ Observe("absx") /\ TapKeep
    /\ tap' = [tap EXCEPT !.phase = "earlier y"]

TapEarlierY ==
    /\ tap.phase = "earlier y"
    /\ \E v \in EarlierY : ProcessAbsY(sink, v)
    /\ Observe("absy") /\ TapKeep
    /\ tap' = [tap EXCEPT !.phase = "earlier syn"]

\* The earlier frame closes; the tap's position is settled.
TapEarlierSyn ==
    /\ tap.phase = "earlier syn"
    /\ ProcessSyn(sink) /\ Observe("syn") /\ TapKeep
    /\ \E px \in TapX, py \in TapY :
          tap' = [phase |-> "press", px |-> px, py |-> py,
                  pending |-> {"button"}
                              \cup (IF px # current_x_ THEN {"x"} ELSE {})
                              \cup (IF py # current_y_ THEN {"y"} ELSE {})]

TapPressButton ==
    /\ tap.phase = "press" /\ "button" \in tap.pending
    /\ ProcessKeyDown(sink) /\ Observe("down") /\ TapKeep
    /\ tap' = [tap EXCEPT !.pending = @ \ {"button"}]

TapPressX ==
    /\ tap.phase = "press" /\ "x" \in tap.pending
    /\ ProcessAbsX(sink, tap.px) /\ Observe("absx") /\ TapKeep
    /\ tap' = [tap EXCEPT !.pending = @ \ {"x"}]

TapPressY ==
    /\ tap.phase = "press" /\ "y" \in tap.pending
    /\ ProcessAbsY(sink, tap.py) /\ Observe("absy") /\ TapKeep
    /\ tap' = [tap EXCEPT !.pending = @ \ {"y"}]

TapPressSyn ==
    /\ tap.phase = "press" /\ tap.pending = {}
    /\ ProcessSyn(sink) /\ Observe("syn") /\ TapKeep
    /\ tap' = [tap EXCEPT !.phase = "held"]

TapRelease ==
    /\ tap.phase = "held"
    /\ ProcessKeyUp(sink) /\ Observe("up") /\ TapKeep
    /\ tap' = [tap EXCEPT !.phase = "released"]

TapReleaseSyn ==
    /\ tap.phase = "released"
    /\ ProcessSyn(sink) /\ Observe("syn") /\ TapKeep
    /\ tap' = [tap EXCEPT !.phase = "done"]

TapNext ==
    \/ TapRegister
    \/ TapEarlierX
    \/ TapEarlierY
    \/ TapEarlierSyn
    \/ TapPressButton
    \/ TapPressX
    \/ TapPressY
    \/ TapPressSyn
    \/ TapRelease
    \/ TapReleaseSyn

SpecTap == Init /\ [][TapNext]_vars

(***************************************************************************)
(* SpecWire: the serial link as the firmware end sees it.  Each write()    *)
(* that returns n > 0 has put the first n bytes of its buffer on the link; *)
(* wire is every byte so accepted since construction, in order.            *)
(***************************************************************************)
\* The most bytes the link is followed for.
MaxWire == 6

\* The first bytes_written bytes of each buffer handed to write().
Accepted(buffers, results) ==
    IF buffers = <<>> \/ results[1] < 0 THEN ""
    ELSE SubSeq(buffers[1], 1, results[1])

WireRoom == Len(wire) < MaxWire

WireKeep == UNCHANGED <<mapping, gesture, touch_callback_, crashed, sink, calls,
                        cfg, drv, map_arg, map_res, raw_ev, cb_arg, lifecycle, tap,
                        simple, fw>>

WireCarries == wire' = wire \o Accepted(handed', wrote')

WireInitFails == WireRoom /\ init_fails /\ WireCarries /\ WireKeep

WireInit == WireRoom /\ init_ok /\ WireCarries /\ WireKeep

WireClose == WireRoom /\ close /\ WireCarries /\ WireKeep

WireHome ==
    WireRoom /\ Send("send_home", <<>>, send_home) /\ WireCarries /\ WireKeep

WireStatus ==
    WireRoom /\ Send("send_status", <<>>, send_status) /\ WireCarries /\ WireKeep

WireClick ==
    /\ WireRoom
    /\ Send("send_click", <<0, 0>>, send_click(0, 0))
    /\ WireCarries /\ WireKeep

WireNext ==
    \/ WireInitFails
    \/ WireInit
    \/ WireClose
    \/ WireHome
    \/ WireStatus
    \/ WireClick

SpecWire == Init /\ [][WireNext]_vars

(***************************************************************************)
(* The MOVE-dialect firmware (SimpleBLEMouse): moveToAbsolute homes with   *)
(* a fixed number of (-50,-50) moves and then walks from (0,0) to the      *)
(* target in steps of at most 50 per axis.  simple.sentX/sentY add up the  *)
(* moves sent after homing, simple.widest is the largest of them on        *)
(* either axis.                                                            *)
(***************************************************************************)
ACTUAL_SCREEN_WIDTH == 1170

ACTUAL_SCREEN_HEIGHT == 2532

\* int homeSteps = max(ACTUAL_SCREEN_WIDTH, ACTUAL_SCREEN_HEIGHT) / 50 + 5
homeSteps == TruncDiv(Max(ACTUAL_SCREEN_WIDTH, ACTUAL_SCREEN_HEIGHT), 50) + 5

\* A slip in the step: a negative remainder is not walked.
StepOf_PositiveOnly(remaining) ==
    IF remaining > 0 THEN Min(remaining, 50) ELSE 0

\* The step taken on one axis for what remains on it.
StepOf(remaining) ==
    IF remaining > 0 THEN Min(remaining, 50)
    ELSE IF remaining < 0 THEN Max(remaining, -50)
    ELSE 0

\* moveToAbsolute(targetX, targetY) up to the head of its while loop: the
\* homing moves are sent
moveToAbsolute_begin(targetX, targetY) ==
    /\ simple.pc = "idle"
    /\ simple' = [pc |-> "loop", targetX |-> targetX, targetY |-> targetY,
                  remainingX |-> targetX, remainingY |-> targetY,
                  homing |-> homeSteps, sentX |-> 0, sentY |-> 0, widest |-> 0]

\* One pass of while (remainingX != 0 || remainingY != 0)
moveToAbsolute_step ==
    /\ simple.pc = "loop"
    /\ simple.remainingX # 0 \/ simple.remainingY # 0
    /\ LET moveX == StepOf(simple.remainingX)
           moveY == StepOf(simple.remainingY)
       IN
       IF moveX # 0 \/ moveY # 0
       THEN simple' = [simple EXCEPT
                          !.remainingX = @ - moveX,
                          !.remainingY = @ - moveY,
                          !.sentX = @ + moveX,
                          !.sentY = @ + moveY,
                          !.widest = Max(@, Max(Abs(moveX), Abs(moveY)))]
       ELSE simple' = [simple EXCEPT !.pc = "idle"]

\* The loop condition fails: moveToAbsolute returns
moveToAbsolute_end ==
    /\ simple.pc = "loop"
    /\ simple.remainingX = 0 /\ simple.remainingY = 0
    /\ simple' = [simple EXCEPT !.pc = "idle"]

(***************************************************************************)
(* SpecAbs: moveToAbsolute called again and again with targets on both     *)
(* sides of zero and of 50; a call that can go on does.                    *)
(***************************************************************************)
AbsTargets == {-120, -51, -50, -1, 0, 1, 50, 51, 120}

AbsKeep == UNCHANGED <<mapping, gesture, touch_callback_, crashed, sink, calls,
                       cfg, drv, map_arg, map_res, raw_ev, comm,
                       cb_arg, lifecycle, tap, wire, fw>>

AbsBegin ==
    \E targetX \in AbsTargets, targetY \in AbsTargets :
        moveToAbsolute_begin(targetX, targetY) /\ AbsKeep

AbsStep == moveToAbsolute_step /\ AbsKeep

AbsEnd == moveToAbsolute_end /\ AbsKeep

AbsNext ==
    \/ AbsBegin
    \/ AbsStep
    \/ AbsEnd

SpecAbs ==
    /\ Init /\ [][AbsNext]_vars
    /\ WF_vars(AbsStep)
    /\ WF_vars(AbsEnd)

(***************************************************************************)
(* The firmware of esp/main.ino as a machine: loop() takes one command     *)
(* line at a time; moveTo calls move() until it returns true or ten        *)
(* seconds have passed; the phone connects and disconnects when it likes.  *)
(* Left out: FACTOR and setMaxJumpDistance (correctionFactor stays 1.0,    *)
(* maxJumpDistance 50), the scroll commands, the Serial output.            *)
(***************************************************************************)
maxJumpDistance == 50

\* const unsigned long timeout of moveTo, in milliseconds
MoveToTimeout == 10000

\* delay(50) at the foot of moveTo's loop; delay(20) after a move report
MoveToDelay == 50

MoveDelay == 20

\* home(): twenty moves, delay(50) after each
HomeDelay == 20 * 50

\* constrain(amt, low, high)
constrain(amt, low, high) ==
    IF amt < low THEN low ELSE IF amt > high THEN high ELSE amt

\* String::substring(from, to) and substring(from), indices from 0
Substring(text, from, to) == SubSeq(text, from + 1, to)

RECURSIVE DigitsToInt(_, _)
\* The decimal digits text starts with, read onto acc.
DigitsToInt(text, acc) ==
    IF text = "" \/ Head(text) \notin {"0","1","2","3","4","5","6","7","8","9"}
    THEN acc
    ELSE DigitsToInt(Tail(text),
                     10 * acc + (CHOOSE d \in 0..9 : DigitChar(d) = Head(text)))

RECURSIVE toInt(_)
\* String::toInt (atol): blanks, a sign, digits; 0 when there are none
toInt(text) ==
    IF text = "" THEN 0
    ELSE IF Head(text) \in Whitespace THEN toInt(Tail(text))
    ELSE IF Head(text) = "-" THEN 0 - DigitsToInt(Tail(text), 0)
    ELSE IF Head(text) = "+" THEN DigitsToInt(Tail(text), 0)
    ELSE DigitsToInt(text, 0)

\* The two numbers of a VERB,a,b command
TwoArgs(command) ==
    LET comma == IndexOf(command, ",", 0)
        secondComma == IndexOf(command, ",", comma + 1)
    IN  <<toInt(Substring(command, comma + 1, secondComma)),
          toInt(Substring(command, secondComma + 1, Len(command)))>>

\* A slip in move(): the step is not cut to maxJumpDistance.
MoveStep_Uncut(delta) == delta

\* move(): moveX / moveY for deltaX / deltaY
MoveStep(delta) ==
    constrain(IF Abs(delta) > maxJumpDistance
              THEN (IF delta > 0 THEN maxJumpDistance ELSE 0 - maxJumpDistance)
              ELSE delta,
              -127, 127)

\* bool move(): the firmware after the call, the milliseconds the call
\* took, and the value returned
move ==
    IF ~fw.connected THEN [after |-> fw, took |-> 0, ret |-> FALSE]
    ELSE IF ~fw.isHomed
    THEN [after |-> [fw EXCEPT !.currentX = 0, !.currentY = 0, !.isHomed = TRUE,
                               !.sentX = 0, !.sentY = 0, !.report = "home"],
          took |-> HomeDelay, ret |-> FALSE]
    ELSE LET deltaX == fw.targetX - fw.currentX
             deltaY == fw.targetY - fw.currentY
             moveX == MoveStep(deltaX)
             moveY == MoveStep(deltaY)
         IN
         IF Abs(deltaX) <= 2 /\ Abs(deltaY) <= 2
         THEN [after |-> fw, took |-> 0, ret |-> TRUE]
         ELSE IF moveX # 0 \/ moveY # 0
         THEN [after |-> [fw EXCEPT !.currentX = @ + moveX, !.currentY = @ + moveY,
                                    !.sentX = @ + moveX, !.sentY = @ + moveY,
                                    !.widest = Max(@, Max(Abs(moveX), Abs(moveY))),
                                    !.report = "move"],
               took |-> MoveDelay, ret |-> FALSE]
         ELSE [after |-> fw, took |-> 0, ret |-> FALSE]

\* handleCommand("SCREEN,w,h"): the connection guard, then
\* setScreenResolution
handle_screen(command) ==
    /\ fw.pc = "loop"
    /\ fw' = IF handleCommand(command, fw.connected) = "completed"
             THEN [fw EXCEPT !.screenWidth = TwoArgs(command)[1],
                             !.screenHeight = TwoArgs(command)[2],
                             !.cmd = "SCREEN", !.args = TwoArgs(command)]
             ELSE [fw EXCEPT !.cmd = "SCREEN", !.args = TwoArgs(command)]

\* handleCommand("HOME"): home()
handle_home(command) ==
    /\ fw.pc = "loop"
    /\ fw' = IF handleCommand(command, fw.connected) = "completed"
             THEN [fw EXCEPT !.currentX = 0, !.currentY = 0, !.isHomed = TRUE,
                             !.sentX = 0, !.sentY = 0, !.report = "home",
                             !.cmd = "HOME", !.args = <<>>]
             ELSE [fw EXCEPT !.cmd = "HOME", !.args = <<>>]

\* handleCommand("CLICK,x,y") down to the head of moveTo's loop: the
\* connection guard, clickAt, moveTo, setTarget, startTime = millis()
handle_click(command) ==
    /\ fw.pc = "loop"
    /\ fw' = IF handleCommand(command, fw.connected) = "completed"
             THEN [fw EXCEPT
                     !.targetX = constrain(TwoArgs(command)[1], 0, fw.screenWidth),
                     !.targetY = constrain(TwoArgs(command)[2], 0, fw.screenHeight),
                     !.pc = "moveTo", !.elapsed = 0,
                     !.calls = 0, !.reached = FALSE, !.steady = fw.isHomed,
                     !.fromX = fw.currentX, !.fromY = fw.currentY,
                     !.widest = 0, !.report = "none", !.clicks = @ + 1,
                     !.cmd = "CLICK", !.args = TwoArgs(command)]
             ELSE [fw EXCEPT !.cmd = "CLICK", !.args = TwoArgs(command),
                             !.report = "none"]

\* One pass of while (!move()) in moveTo: the call, the timeout test,
\* delay(50); after the loop, delay(100) of clickAt
moveTo_pass ==
    /\ fw.pc = "moveTo"
    /\ LET m == move
           now == fw.elapsed + m.took
           counted == [m.after EXCEPT !.calls = @ + 1, !.reached = m.ret]
       IN
       fw' = IF m.ret \/ now > MoveToTimeout
             THEN [counted EXCEPT !.pc = "click", !.elapsed = now]
             ELSE [counted EXCEPT !.elapsed = now + MoveToDelay]

\* click() at the end of clickAt; handleCommand returns
click ==
    /\ fw.pc = "click"
    /\ fw' = IF fw.connected
             THEN [fw EXCEPT !.pc = "loop", !.elapsed = 0, !.report = "click"]
             ELSE [fw EXCEPT !.pc = "loop", !.elapsed = 0]

\* The phone pairs, or the BLE connection drops.
ble_connects ==
    /\ ~fw.connected
    /\ fw' = [fw EXCEPT !.connected = TRUE]

ble_drops ==
    /\ fw.connected
    /\ fw' = [fw EXCEPT !.connected = FALSE, !.steady = FALSE]

(***************************************************************************)
(* SpecFw: the host's SCREEN, HOME and CLICK lines arriving whole at the   *)
(* firmware, beside the phone's comings and goings.                        *)
(***************************************************************************)
\* The most CLICK commands the firmware is followed through: beside a
\* phone that comes and goes, and beside one that stays.
MaxClicks == 1

MaxSteadyClicks == 2

\* Click targets: at hand, a step and a bit away, and further.
FwX == {0, 120}

FwY == {3, 52}

\* Resolutions the host announces.
FwScreens == {<<390, 844>>, <<430, 932>>}

FwKeep == UNCHANGED <<mapping, gesture, touch_callback_, crashed, sink, calls,
                      cfg, drv, map_arg, map_res, raw_ev, comm,
                      cb_arg, lifecycle, tap, wire, simple>>

FwScreen ==
    \E r \in FwScreens :
        /\ fw.pc = "loop"
        /\ handle_screen(ReadCommand(send_screen_resolution(r[1], r[2]) \o "\n"))
        /\ FwKeep

FwHome == fw.pc = "loop" /\ handle_home(ReadCommand("HOME\n")) /\ FwKeep

FwClick ==
    \E x \in FwX, y \in FwY :
        /\ fw.pc = "loop" /\ fw.clicks < MaxClicks
        /\ handle_click(ReadCommand(send_click(x, y) \o "\n")) /\ FwKeep

FwPass == moveTo_pass /\ FwKeep

FwClickSent == click /\ FwKeep

FwConnects == ble_connects /\ FwKeep

FwDrops == ble_drops /\ FwKeep

FwNext ==
    \/ FwScreen
    \/ FwHome
    \/ FwClick
    \/ FwPass
    \/ FwClickSent
    \/ FwConnects
    \/ FwDrops

SpecFw == Init /\ [][FwNext]_vars

\* SpecFwSteady: the same firmware with a phone that, once paired, stays.
FwSteadyClick ==
    \E x \in FwX, y \in FwY :
        /\ fw.pc = "loop" /\ fw.clicks < MaxSteadyClicks
        /\ handle_click(ReadCommand(send_click(x, y) \o "\n")) /\ FwKeep

FwSteadyNext ==
    \/ FwScreen
    \/ FwHome
    \/ FwSteadyClick
    \/ FwPass
    \/ FwClickSent
    \/ FwConnects

SpecFwSteady == Init /\ [][FwSteadyNext]_vars

(***************************************************************************)
(* Properties.                                                             *)
(***************************************************************************)
\* The mapping the specification states for one axis:
\* clamp(floor(raw * target / screen), 0, target - 1), for positive
\* dimensions below 32768.  A product beyond the int range is not formed:
\* its quotient lies beyond the clamp's range on the same side.
Proportional(raw, target, screen) ==
    IF MulOverflows(raw, target)
    THEN (IF raw > 0 THEN target - 1 ELSE 0)
    ELSE Clamp((raw * target) \div screen, target)

SinkTypes == {sink[i].type : i \in 1..Len(sink)}

ContactOver == drv.phase \in {"up", "done"}

\* C1: a press followed by a release whose position differs from the press
\* position by less than 50 on both axes delivers exactly Down then Up, and
\* the Up carries the proportional mapping of the last reported position.
C1_TapEmitsDownThenUp ==
    ( /\ ContactOver
      /\ drv.kind = "tap"
      /\ Abs(current_x_ - drv.ax) < DocumentedTapThreshold
      /\ Abs(current_y_ - drv.ay) < DocumentedTapThreshold )
    => /\ Len(sink) = 2
       /\ sink[1].type = "TOUCH_DOWN"
       /\ sink[2].type = "TOUCH_UP"
       /\ sink[2].x = Proportional(current_x_, target_width_, screen_width_)
       /\ sink[2].y = Proportional(current_y_, target_height_, screen_height_)

\* C2: a release outside scroll mode, at a position more than the tap
\* threshold away (in X or in Y) from the position recorded at the press,
\* delivers nothing.
C2_FarReleaseIsSilent ==
    [][ ( /\ drv'.phase = "up"
          /\ ~scroll_mode_
          /\ \/ Abs(current_x_ - drv.ax) > DocumentedTapThreshold
             \/ Abs(current_y_ - drv.ay) > DocumentedTapThreshold )
        => sink' = sink ]_vars

\* C3: a press, a one-directional vertical drag of DragLength split into
\* frames in any way with less than 25 of horizontal movement, then a
\* release: Down is delivered first, at least one scroll event in the
\* drag's direction is delivered, and no Up.
C3_DragScrolls ==
    (ContactOver /\ drv.kind = "drag")
    => /\ Len(sink) >= 1
       /\ sink[1].type = "TOUCH_DOWN"
       /\ (IF drv.dir > 0 THEN "SCROLL_DOWN" ELSE "SCROLL_UP") \in SinkTypes
       /\ "TOUCH_UP" \notin SinkTypes

\* C4: as long as no press and no release has been processed, no operation
\* delivers a TouchEvent.
C4_NoButtonNoEvent == ~seen_button => sink = <<>>

C4_Witness ==
    /\ ~seen_button
    /\ touch_callback_ # NoCallback
    /\ last_op = "syn"
    /\ current_x_ = 100
    /\ current_y_ = 160

\* C5: for every raw point and every mapping with positive dimensions,
\* map_coordinates returns the clamped proportional mapping on both axes;
\* under 800x480 -> 390x844, (800,480) maps to (389,843) and (0,0) to (0,0).
C5_MapIsProportional ==
    last_op = "map" =>
       /\ map_res = [fault |-> FALSE,
                     x |-> Proportional(map_arg[1], target_width_, screen_width_),
                     y |-> Proportional(map_arg[2], target_height_, screen_height_)]
       /\ (mapping = DefaultMapping /\ map_arg = <<800, 480>>)
             => (map_res.x = 389 /\ map_res.y = 843)
       /\ (mapping = DefaultMapping /\ map_arg = <<0, 0>>)
             => (map_res.x = 0 /\ map_res.y = 0)

\* C6: every delivered TouchEvent has 0 <= x <= target_width_ - 1 and
\* 0 <= y <= target_height_ - 1 for the mapping in force when it was
\* delivered (sink holds what the latest operation delivered).
C6_EventsInsideTarget ==
    \A i \in 1..Len(sink) :
        /\ 0 <= sink[i].x /\ sink[i].x <= target_width_ - 1
        /\ 0 <= sink[i].y /\ sink[i].y <= target_height_ - 1

\* C7: under 800x480 -> 390x844 the stream [(100,100) + press, sync,
\* (102,101) + release, sync] delivers exactly one Up, at (49,177), which
\* send_click formats as CLICK,49,177, and no Move or scroll event.
C7_ClickScenarioCase ==
    /\ drv.phase = "done"
    /\ drv.kind = "tap"
    /\ drv.ax = 100 /\ drv.ay = 100
    /\ current_x_ = 102 /\ current_y_ = 101
    /\ mapping = DefaultMapping

C7_ClickScenario ==
    C7_ClickScenarioCase =>
       LET ups == {i \in 1..Len(sink) : sink[i].type = "TOUCH_UP"} IN
       /\ Cardinality(ups) = 1
       /\ \A i \in ups :
             /\ sink[i].x = 49 /\ sink[i].y = 177
             /\ send_click(sink[i].x, sink[i].y) = "CLICK,49,177"
       /\ SinkTypes \subseteq {"TOUCH_DOWN", "TOUCH_UP"}

C7_Witness == C7_ClickScenarioCase /\ Len(sink) = 2

\* C8: a set_coordinate_mapping call with a zero dimension is rejected:
\* the mapping in force before the call stays in force.
C8_ZeroDimensionRejected ==
    [][ (last_op' = "config" /\ \E i \in 1..4 : cfg_args'[i] = 0)
        => UNCHANGED mapping ]_vars

\* C9: after set_coordinate_mapping has returned, every TouchEvent a later
\* process_event delivers is computed with the mapping the call set, also
\* when the call came in the middle of a contact; and the call leaves
\* touch_active_, last_x_/last_y_, current_x_/current_y_, scroll_mode_ and
\* scroll_start_y_ unchanged.
C9_EventsUseSetMapping ==
    \A i \in 1..Len(sink) :
        [fault |-> FALSE, x |-> sink[i].x, y |-> sink[i].y]
            \in MapWith(cfg_args, current_x_, current_y_)

C9_ReconfigureApplies ==
    /\ []C9_EventsUseSetMapping
    /\ [][last_op' = "config" => UNCHANGED gesture]_vars

C9_Witness ==
    /\ cfg_mid
    /\ touch_active_
    /\ last_op = "syn"
    /\ Len(sink) = 1
    /\ cfg_args = <<1024, 600, 430, 932>>
    /\ sink[1] = [type |-> "TOUCH_MOVE", x |-> 41, y |-> 776, to |-> "A"]

\* C10: with set_coordinate_mapping running beside process_event, every
\* delivered TouchEvent is computed from the complete mapping in force
\* before the call or the complete mapping the call sets, never a mixture.
C10_NoMixedMapping ==
    \A i \in 1..Len(sink) :
        [fault |-> FALSE, x |-> sink[i].x, y |-> sink[i].y]
            \in (MapWith(cfg_args, current_x_, current_y_)
                 \cup MapWith(cfg_prev, current_x_, current_y_))

NoMoveNoUp(log) ==
    \A i \in 1..Len(log) : log[i].type \notin {"TOUCH_MOVE", "TOUCH_UP"}

\* A release processed while no contact is active (one that follows the
\* contact's own release).
StrayRelease == last_op' = "up" /\ ~touch_active_

C12_ScrollNeedsContact ==
    /\ [](~crashed => /\ (scroll_mode_ => touch_active_)
                      /\ (last_op = "up" => ~touch_active_ /\ ~scroll_mode_))
    /\ [][last_op' = "up" => current_x_' = current_x_ /\ current_y_' = current_y_]_vars

\* A contact that was in scroll mode has just been released.
C12_Witness ==
    /\ last_op = "up" /\ latched /\ ~crashed
    /\ ~touch_active_ /\ ~scroll_mode_
    /\ current_y_ # last_y_

\* The events the handler does not act on: another type, an EV_ABS code
\* other than ABS_X and ABS_Y, an EV_KEY code other than the touch buttons,
\* a touch button value other than 0 and 1, an EV_SYN code other than
\* SYN_REPORT.
Unrecognised(event) ==
    \/ event.type \notin {"EV_ABS", "EV_KEY", "EV_SYN"}
    \/ event.type = "EV_ABS" /\ event.code \notin {"ABS_X", "ABS_Y"}
    \/ event.type = "EV_KEY" /\ event.code \notin {"BTN_TOUCH", "BTN_LEFT"}
    \/ event.type = "EV_KEY" /\ event.value \notin {0, 1}
    \/ event.type = "EV_SYN" /\ event.code # "SYN_REPORT"

\* C13: process_event on an unrecognised event delivers nothing and leaves
\* every gesture-state field (and the mapping) unchanged.
C13_UnrecognisedIsNoOp ==
    [][ last_op' = "event" /\ Unrecognised(raw_ev')
          => sink' = <<>> /\ UNCHANGED <<gesture, mapping, crashed>> ]_vars

\* An unrecognised event has been processed during a contact in scroll
\* mode, with a sink registered.
C13_Witness ==
    /\ last_op = "event" /\ Unrecognised(raw_ev)
    /\ raw_ev.type = "EV_KEY"
    /\ touch_active_ /\ scroll_mode_
    /\ touch_callback_ # NoCallback

(***************************************************************************)
(* Reading a command line back, as the receiving end does.                 *)
(***************************************************************************)
RECURSIVE Count(_, _)
Count(text, c) ==
    IF Len(text) = 0 THEN 0
    ELSE (IF Head(text) = c THEN 1 ELSE 0) + Count(Tail(text), c)

\* The comma-separated fields of text, left to right.
RECURSIVE FieldsFrom(_, _, _)
FieldsFrom(text, field, done) ==
    IF Len(text) = 0 THEN Append(done, field)
    ELSE IF Head(text) = "," THEN FieldsFrom(Tail(text), "", Append(done, field))
    ELSE FieldsFrom(Tail(text), field \o Head(text), done)

Fields(text) == FieldsFrom(text, "", <<>>)

\* A line without its last byte.
Body(line) == SubSeq(line, 1, Len(line) - 1)

LastByte(line) == SubSeq(line, Len(line), Len(line))

Digits == {"0", "1", "2", "3", "4", "5", "6", "7", "8", "9"}

VerbLetters ==
    {"A", "B", "C", "D", "E", "F", "G", "H", "I", "J", "K", "L", "M", "N", "O",
     "P", "Q", "R", "S", "T", "U", "V", "W", "X", "Y", "Z", "_"}

AllIn(text, alphabet) ==
    \A i \in 1..Len(text) : SubSeq(text, i, i) \in alphabet

IsVerb(text) == Len(text) > 0 /\ AllIn(text, VerbLetters)

\* A decimal integer: digits, after an optional minus sign, with no
\* leading zero.
IsDecimal(text) ==
    LET digits == IF Len(text) > 0 /\ Head(text) = "-" THEN Tail(text) ELSE text
    IN  /\ Len(digits) > 0
        /\ AllIn(digits, Digits)
        /\ (Len(digits) > 1 => Head(digits) # "0")

DigitValue(c) == CHOOSE d \in 0..9 : DigitChar(d) = c

RECURSIVE ParseNat(_)
ParseNat(digits) ==
    IF Len(digits) = 1 THEN DigitValue(digits)
    ELSE 10 * ParseNat(Body(digits)) + DigitValue(LastByte(digits))

ParseInt(text) ==
    IF Head(text) = "-" THEN -ParseNat(Tail(text)) ELSE ParseNat(text)

\* line is verb,v1,...,vn followed by one newline, with the values in
\* decimal.
IsLineOf(line, verb, values) ==
    /\ Len(line) > 0
    /\ LastByte(line) = "\n"
    /\ LET fields == Fields(Body(line)) IN
       /\ Len(fields) = 1 + Len(values)
       /\ fields[1] = verb
       /\ \A i \in 1..Len(values) :
             IsDecimal(fields[i + 1]) /\ ParseInt(fields[i + 1]) = values[i]

LinkUp == connected_ /\ serial_fd_ # NoFd

\* C14: send_click(x, y), the sender of an Up event at (x, y), passes on
\* the command CLICK,<x>,<y>; on a connected link it hands write() exactly
\* that line and one newline, in one buffer, x and y in decimal; for
\* (195, 422) the buffer is CLICK,195,422\n.
C14_ClickLine ==
    comm_call.op = "send_click" =>
        LET x == comm_call.args[1]
            y == comm_call.args[2]
        IN  /\ Len(commands) = 1
            /\ IsLineOf(commands[1] \o "\n", "CLICK", <<x, y>>)
            /\ handed = IF LinkUp THEN <<commands[1] \o "\n">> ELSE <<>>
            /\ (LinkUp /\ x = 195 /\ y = 422 => handed = <<"CLICK,195,422\n">>)

C14_Witness ==
    /\ comm_call = [op |-> "send_click", args |-> <<195, 422>>]
    /\ handed = <<"CLICK,195,422\n">>
    /\ ret = <<TRUE>>

\* C15: send_scroll_up(x, y, amount), the sender of a ScrollUp event at
\* (x, y), hands write() the line SCROLL_UP,<x>,<y>,<amount>, and
\* send_scroll_down the line SCROLL_DOWN,<x>,<y>,<amount>.
C15_ScrollLines ==
    /\ comm_call.op = "send_scroll_up" /\ handed # <<>> =>
          IsLineOf(handed[1], "SCROLL_UP", comm_call.args)
    /\ comm_call.op = "send_scroll_down" /\ handed # <<>> =>
          IsLineOf(handed[1], "SCROLL_DOWN", comm_call.args)

\* C16: the move command send_goto hands to write() carries the verb of the
\* configured firmware dialect, GOTO or MOVE.
C16_MoveVerbOfDialect ==
    comm_call.op = "send_goto" /\ handed # <<>> =>
        IsLineOf(handed[1], dialect, comm_call.args)

\* C17: set_iphone_resolution(w, h) stores w and h and passes on the one
\* command SCREEN,<w>,<h> before it returns, on its first call as on any
\* later one (a repeated call passes it on once more); on a connected link
\* that line and its newline are handed to write(), once.
C17_ResolutionAnnounced ==
    comm_call.op = "set_iphone_resolution" =>
        /\ iphone_width_ = comm_call.args[1]
        /\ iphone_height_ = comm_call.args[2]
        /\ Len(commands) = 1
        /\ IsLineOf(commands[1] \o "\n", "SCREEN", comm_call.args)
        /\ handed = IF LinkUp THEN <<commands[1] \o "\n">> ELSE <<>>

C17_Witness ==
    /\ comm_call = [op |-> "set_iphone_resolution", args |-> <<430, 844>>]
    /\ iphone_width_ = 430
    /\ handed = <<"SCREEN,430,844\n">>

SendOps ==
    {"send_goto", "send_click", "send_scroll", "send_scroll_up", "send_scroll_down",
     "send_home", "send_status", "send_calibrate", "send_screen_resolution"}

\* C18: a send_* call makes at most one write() call; it returns false when
\* the link is not connected (without writing) or write() reports an
\* error, and true when write() accepted the whole buffer.
C18_SendReportsFailure ==
    comm_call.op \in SendOps =>
        /\ Len(handed) <= 1 /\ Len(wrote) = Len(handed) /\ Len(ret) = 1
        /\ (~LinkUp => handed = <<>> /\ ret = <<FALSE>>)
        /\ (handed # <<>> /\ wrote[1] < 0 => ret = <<FALSE>>)
        /\ (handed # <<>> /\ wrote[1] = Len(handed[1]) => ret = <<TRUE>>)

\* A sender's write() failed on a connected link.
C18_Witness ==
    /\ comm_call.op = "send_goto" /\ LinkUp
    /\ wrote = <<-1>> /\ ret = <<FALSE>>

\* C19: set_iphone_resolution with a zero or negative width or height leaves
\* the stored resolution as it was and passes on no SCREEN command.
C19_BadResolutionRejected ==
    [][ /\ comm_call'.op = "set_iphone_resolution"
        /\ (comm_call'.args[1] <= 0 \/ comm_call'.args[2] <= 0)
        => /\ UNCHANGED <<iphone_width_, iphone_height_>>
           /\ commands' = <<>> /\ handed' = <<>>
      ]_vars

\* One command line: a verb, then decimal fields, separated by commas, and
\* a newline as the last byte and nowhere else.
IsCommandLine(line) ==
    /\ Len(line) > 1
    /\ LastByte(line) = "\n"
    /\ Count(line, "\n") = 1
    /\ LET fields == Fields(Body(line)) IN
       /\ IsVerb(fields[1])
       /\ \A i \in 2..Len(fields) : IsDecimal(fields[i])

\* C20: every buffer an ESP32Comm operation hands to write() is one command
\* line: a verb first, fields separated by commas, exactly one newline, as
\* the last byte.
C20_OneCommandLine ==
    \A i \in 1..Len(handed) : IsCommandLine(handed[i])

\* send_calibrate with a negative coordinate on a connected link.
C20_Witness ==
    /\ comm_call.op = "send_calibrate"
    /\ handed = <<"RESET,-7,422\n">>

\* C21: once set_touch_callback(B) has replaced a registered sink A, every
\* TouchEvent delivered afterwards goes to B, the sink of the latest
\* registration, and to no other; the registration itself delivers nothing
\* (no earlier event reaches B) and leaves the earlier deliveries as they
\* were.
C21_ReplacedSinkGetsNothing ==
    [][ /\ Len(sink') >= Len(sink)
        /\ SubSeq(sink', 1, Len(sink)) = sink
        /\ (last_op' = "callback" => sink' = sink /\ touch_callback_' = cb_arg')
        /\ \A i \in (Len(sink) + 1)..Len(sink') : sink'[i].to = cb_arg
      ]_vars

\* Sink A received an event, B replaced it and received a later one.
C21_Witness ==
    /\ cb_arg = "B"
    /\ \E i, j \in 1..Len(sink) : i < j /\ sink[i].to = "A" /\ sink[j].to = "B"

\* C22: stop() on a running handler makes the event loop exit and then
\* returns: it returns only once the event_loop thread has ended, and from
\* its return until a later start() there is no event_loop thread, no
\* process_event call and so no delivery to the sink.
C22_StopEndsTheLoop ==
    /\ [](stopped => loops = <<>> /\ life_op \notin {"test", "event", "idle"})
    /\ (ctl = "joining" ~> (ctl = "idle" /\ stopped))

\* stop() has returned on a handler whose loop had delivered an event.
C22_Witness ==
    /\ stopped /\ life_op = "stop" /\ ~running_
    /\ initialized_ /\ seen_button /\ touch_callback_ # NoCallback

\* C23: when stop() has returned the input descriptor is closed
\* (input_fd_ == -1), with no close() call.
C23_StopReleasesInput ==
    stopped /\ life_op = "stop" => input_fd_ = NoInputFd

RequestOps ==
    {"send_goto", "send_click", "send_scroll_up", "send_scroll_down", "send_home",
     "send_status", "send_screen_resolution", "set_iphone_resolution"}

\* C24: every line ESP32Comm hands to write() for a gesture or
\* administrative request is one the firmware of esp/main.ino accepts:
\* with the phone connected, handleCommand answers it neither with
\* 'Unknown command' nor with 'Invalid format'.
C24_FirmwareAcceptsLines ==
    comm_call.op \in RequestOps =>
        \A i \in 1..Len(handed) :
            handleCommand(ReadCommand(handed[i]), TRUE)
                \notin {"Unknown command", "Invalid format"}

\* The one event a sink receives from a call, or nothing when no sink is
\* registered.
Delivered(t) ==
    IF touch_callback_ = NoCallback THEN <<>>
    ELSE << [type |-> t,
             x |-> Proportional(current_x_, target_width_, screen_width_),
             y |-> Proportional(current_y_, target_height_, screen_height_),
             to |-> touch_callback_] >>

\* C26: at a SYN_REPORT during an active contact not yet in scroll mode,
\* scroll mode is entered if and only if |dy| > 50 and |dx| < 25, dx and dy
\* being current position minus last recorded position; |dy| = 50 and
\* |dx| = 25 do not enter it.
C26_ScrollEntryThresholds ==
    [][ last_op' = "syn" /\ touch_active_ /\ ~scroll_mode_ =>
          (scroll_mode_' <=> /\ Abs(current_y_ - last_y_) > 50
                             /\ Abs(current_x_ - last_x_) < 25)
      ]_vars

\* Scroll mode entered with |dy| = 51 and |dx| = 24.
C26_Witness ==
    /\ last_op = "syn" /\ scroll_mode_ /\ touch_active_
    /\ Abs(current_y_ - last_y_) = 51
    /\ Abs(current_x_ - last_x_) = 24

\* C27: a SYN_REPORT in scroll mode (the one that enters it included)
\* delivers a scroll event if and only if |current_y_ - scroll_start_y_| >
\* 50: SCROLL_DOWN when the difference is positive, SCROLL_UP otherwise,
\* with the mapping of the current position; it then moves scroll_start_y_
\* to current_y_, and otherwise leaves it.
C27_ScrollPerThreshold ==
    [][ last_op' = "syn" /\ touch_active_ /\ scroll_mode_' =>
          LET scrollDistance == current_y_ - scroll_start_y_ IN
          IF Abs(scrollDistance) > 50
          THEN /\ sink' = Delivered(IF scrollDistance > 0 THEN "SCROLL_DOWN"
                                                          ELSE "SCROLL_UP")
               /\ scroll_start_y_' = current_y_
          ELSE /\ sink' = <<>>
               /\ scroll_start_y_' = scroll_start_y_
      ]_vars

\* A second scroll event of one contact, 102 from the press position.
C27_Witness ==
    /\ last_op = "syn" /\ scroll_mode_
    /\ Len(sink) = 1 /\ sink[1].type = "SCROLL_DOWN"
    /\ scroll_start_y_ = current_y_
    /\ current_y_ - last_y_ = 102

\* C28: a SYN_REPORT during an active contact that is not in scroll mode
\* (and does not enter it) delivers TOUCH_MOVE with the mapped current
\* position if and only if |dx| > 5 or |dy| > 5 from the last recorded
\* position, which then becomes the current one; otherwise it delivers
\* nothing and leaves the last recorded position.
C28_MoveThreshold ==
    [][ last_op' = "syn" /\ touch_active_ /\ ~scroll_mode_' =>
          IF Abs(current_x_ - last_x_) > 5 \/ Abs(current_y_ - last_y_) > 5
          THEN /\ sink' = Delivered("TOUCH_MOVE")
               /\ last_x_' = current_x_ /\ last_y_' = current_y_
          ELSE /\ sink' = <<>>
               /\ last_x_' = last_x_ /\ last_y_' = last_y_
      ]_vars

\* A move has just been delivered to a registered sink.
C28_Witness ==
    /\ last_op = "syn" /\ touch_active_ /\ ~scroll_mode_
    /\ Len(sink) = 1 /\ sink[1].type = "TOUCH_MOVE"
    /\ last_x_ = current_x_ /\ last_y_ = current_y_
    /\ current_x_ = 106

DownsDelivered == {i \in 1..Len(sink) : sink[i].type = "TOUCH_DOWN"}

\* C25: once the SYN_REPORT that closes the press frame has been processed,
\* the contact's one TOUCH_DOWN has been delivered and carries the mapping
\* of the position reported for that frame, whatever the order of the
\* button and axis events inside it; never a position from before.
C25_DownCarriesFramePosition ==
    tap.phase \in {"held", "released", "done"} =>
        /\ Cardinality(DownsDelivered) = 1
        /\ \A i \in DownsDelivered :
              /\ sink[i].x = Proportional(tap.px, target_width_, screen_width_)
              /\ sink[i].y = Proportional(tap.py, target_height_, screen_height_)

\* C30: a contact that reports one position from its press to its release
\* delivers exactly TOUCH_DOWN then TOUCH_UP, and no scroll or move event,
\* wherever the earlier contact ended and whatever the order of the events
\* in the press frame.
C30_StationaryTapIsDownUp ==
    tap.phase = "done" =>
        /\ Len(sink) = 2
        /\ sink[1].type = "TOUCH_DOWN"
        /\ sink[2].type = "TOUCH_UP"

IsDownOrUp(e) == e.type \in {"TOUCH_DOWN", "TOUCH_UP"}

DownsAndUps == SelectSeq(sink, IsDownOrUp)

\* C31: in the sequence of delivered events TOUCH_DOWN and TOUCH_UP
\* strictly alternate, starting with a TOUCH_DOWN: a release with no active
\* contact delivers nothing, and a second press during an active contact
\* delivers no second TOUCH_DOWN, so a contact yields at most one TOUCH_UP.
C31_DownUpAlternate ==
    \A i \in 1..Len(DownsAndUps) :
        DownsAndUps[i].type = IF i % 2 = 1 THEN "TOUCH_DOWN" ELSE "TOUCH_UP"

\* An event_loop thread is at its read(input_fd_, ...).
LoopReading == \E i \in 1..Len(loops) : loops[i] = "body"

\* C32: whatever the order of the init, start, stop and close calls, an
\* event_loop thread about to read finds input_fd_ an open descriptor:
\* close takes no effect while the loop runs.
C32_LoopReadsOpenInput ==
    (~crashed /\ LoopReading) => input_fd_ # NoInputFd

\* The bytes of text up to and including its first newline.
FirstLine(text) == SubSeq(text, 1, IndexOf(text, "\n", 0) + 1)

RECURSIVE IsLines(_)
\* text is a concatenation of command lines (none at all included).
IsLines(text) ==
    IF text = "" THEN TRUE
    ELSE IF IndexOf(text, "\n", 0) = -1 THEN FALSE
    ELSE /\ IsCommandLine(FirstLine(text))
         /\ IsLines(SubSeq(text, Len(FirstLine(text)) + 1, Len(text)))

\* C33: after any sequence of ESP32Comm operations, failed ones included,
\* the bytes the serial link has accepted are a concatenation of complete
\* newline-terminated command lines: no fragment of a command is left on
\* the link to be joined to the next command.
C33_WireIsWholeLines == IsLines(wire)

\* A call of moveToAbsolute has returned.
AbsReturned == simple.pc = "idle" /\ simple.homing > 0

\* C36: moveToAbsolute(targetX, targetY) returns for every target,
\* positive, zero or negative; every relative move it sends after homing
\* is within [-50, 50] on each axis, and when it returns those moves add
\* up to exactly (targetX, targetY).
C36_MoveToAbsoluteExact ==
    /\ [](simple.widest <= 50)
    /\ [](AbsReturned => simple.sentX = simple.targetX /\ simple.sentY = simple.targetY)
    /\ (simple.pc = "loop" ~> simple.pc = "idle")

\* A call towards (-120, 51) has returned, after three passes.
C36_Witness ==
    /\ AbsReturned
    /\ simple.targetX = -120 /\ simple.targetY = 51
    /\ simple.sentX = -120 /\ simple.sentY = 51

\* C34: once the firmware has processed a SCREEN,w,h line its screen
\* resolution is (w,h), whether or not the phone was connected over BLE
\* when the line arrived.
C34_ScreenLineAlwaysApplies ==
    fw.cmd = "SCREEN" =>
        fw.screenWidth = fw.args[1] /\ fw.screenHeight = fw.args[2]

\* The least n with n * by >= amount, for amount >= 0.
CeilDiv(amount, by) == (amount + by - 1) \div by

\* The calls of move() allowed for the target set: the larger of the two
\* axis distances at setTarget, in jumps, and one call more.
CallBound ==
    CeilDiv(Max(Abs(fw.targetX - fw.fromX), Abs(fw.targetY - fw.fromY)),
            maxJumpDistance) + 1

NearTarget ==
    Abs(fw.targetX - fw.currentX) <= 2 /\ Abs(fw.targetY - fw.currentY) <= 2

\* C35: with the phone connected and the cursor homed, every move() sends
\* at most maxJumpDistance on each axis, the tracked position is the sum of
\* the moves sent since homing, and move() returns true, the tracked
\* position within 2 of the target on both axes, after at most
\* ceil(distance / maxJumpDistance) + 1 calls.
C35_MoveReachesTarget ==
    /\ fw.widest <= maxJumpDistance
    /\ fw.isHomed => fw.currentX = fw.sentX /\ fw.currentY = fw.sentY
    /\ fw.steady /\ fw.pc = "moveTo" => fw.calls < CallBound
    /\ fw.steady /\ fw.pc = "click" =>
          fw.reached /\ fw.calls <= CallBound /\ NearTarget

\* A homed cursor walked back from (120, 52) to (0, 3): four calls.
C35_Witness ==
    /\ fw.steady /\ fw.pc = "click" /\ fw.reached
    /\ fw.fromX = 120 /\ fw.fromY = 52
    /\ fw.targetX = 0 /\ fw.targetY = 3
    /\ fw.calls = 4

\* C37: the BLE click of a CLICK,x,y command is sent only with the tracked
\* position within 2 of the clamped target on both axes, also when
\* moveTo gave up on its timeout or the connection changed during the move.
C37_ClickOnlyAtTarget ==
    fw.cmd = "CLICK" /\ fw.report = "click" => NearTarget

\* C38: an init that returns true leaves the link connected and has handed
\* exactly one STATUS line to write(); an init that returns false leaves the
\* link not connected and without a descriptor; and a send_* call made
\* straight after close() returns false and hands nothing to write().
C38_InitAndCloseSettleTheLink ==
    /\ [](comm_call.op = "init" /\ ret = <<TRUE>> =>
            connected_ /\ serial_fd_ # NoFd /\ handed = <<"STATUS\n">>)
    /\ [](comm_call.op = "init" /\ ret = <<FALSE>> =>
            ~connected_ /\ serial_fd_ = NoFd)
    /\ [][comm_call.op = "close" /\ comm_call'.op \in SendOps =>
            ret' = <<FALSE>> /\ handed' = <<>>]_vars

=============================================================================
